---- MODULE Spec2Model ----
(***************************************************************************)
(* Heat-rate assignment of database_interface.py                           *)
(* (assign_heat_rates_to_projects and its inner calculate_avg_heat_rate),  *)
(* the writing and the upload of the processed files, and the downloads    *)
(* and hydro capacity factors of scrape.py.                                *)
(*                                                                         *)
(* A table (DataFrame) is a sequence of rows; a row is a record whose idx  *)
(* field is the row's index label.  Heat rates are kept in thousandths of  *)
(* MMBTU/MWh as fractions <<numerator, denominator>> in lowest terms, so   *)
(* that a mean is exact; NaN is <<0, 0>>.                                  *)
(*                                                                         *)
(* The histogram of lines 376-378 (ggplot) only writes a PDF file and is   *)
(* taken to leave the tables as they are.  Index labels of the caller's    *)
(* table are 0 .. len-1.                                                   *)
(*                                                                         *)
(* Spec follows assign_heat_rates_to_projects table by table and then     *)
(* finish_project_processing; CallSpec follows one call of                 *)
(* calculate_avg_heat_rate statement by statement; OrderSpec takes the two *)
(* imputation loops one row at a time, the rows in any order; UploadSpec   *)
(* follows upload_generation_projects up to its last database statement;   *)
(* ScrapeSpec follows runs of scrape_eia860 and scrape_eia923 of scrape.py *)
(* and HydroSpec the capacity-factor loop of parse_eia923_dat.  The        *)
(* variables of the functions a specification does not follow keep their   *)
(* idle values.                                                            *)
(***************************************************************************)
EXTENDS Integers, Sequences, FiniteSets

VARIABLES
    generators,              \* the caller's table (argument)
    heat_rate_file,          \* rows of processed_data/historic_heat_rates_WIDE.tab
    year,                    \* argument
    pc,                      \* position in assign_heat_rates_to_projects
    existing_gens,
    thermal_gens,
    null_heat_rates,         \* index labels of thermal_gens flagged null
    unrealistic_heat_rates,  \* index labels of thermal_gens flagged unrealistic
    thermal_gens_w_hr,
    thermal_gens_wo_hr,
    n_outliers,
    min_hr,
    max_hr,
    proposed_gens,
    result,                  \* the returned table
    call,                    \* arguments of a call of calculate_avg_heat_rate
    cpc,                     \* position in calculate_avg_heat_rate
    window,
    similar_generators,
    avg,                     \* the value calculate_avg_heat_rate returns
    todo,                    \* index labels a loop over rows has still to visit
    thermal_proposed_gens,   \* the table the loop of lines 386-391 fills
    new_gens,                \* finish_project_processing: rows of the new-projects file
    uprates,                 \* finish_project_processing: rows of the uprates file
    output_files,            \* the three processed files upload_generation_projects reads
    up_existing_gens,        \* upload_generation_projects: existing_gens
    up_new_gens,             \* upload_generation_projects: new_gens
    up_uprates,              \* upload_generation_projects: uprates
    up_generators,           \* upload_generation_projects: generators
    upc,                     \* position in upload_generation_projects
    carry_on,                \* the last answer to the confirmation prompt
    db_statements,           \* the statements sent to the database, in order
    downloads,               \* scrape.py: the files in the directory downloads
    download_log,            \* scrape.py: the rows of download_log.csv
    log_exists,              \* scrape.py: download_log.csv is a file
    fetched,                 \* scrape.py: the files download_file fetched, in order
    zip_file_list,           \* scrape.py: the list the last scrape returned
    month_order,             \* parse_eia923_dat: the order a loop over months takes
    hydro_outputs,           \* parse_eia923_dat: one row of hydro_outputs
    month_i                  \* parse_eia923_dat: the passes of the loop of line 245 done

\* the variables of calculate_avg_heat_rate
cvars == <<call, cpc, window, similar_generators, avg>>

\* the variables of the loops of lines 363-369 and 386-391 taken row by row
ovars == <<todo, thermal_proposed_gens>>

\* the variables of finish_project_processing
fvars == <<new_gens, uprates>>

\* the variables of upload_generation_projects
uvars == <<output_files, up_existing_gens, up_new_gens, up_uprates, up_generators,
           upc, carry_on, db_statements>>

\* the variables of scrape_eia860 and scrape_eia923
svars == <<downloads, download_log, log_exists, fetched, zip_file_list>>

\* the variables of the hydro part of parse_eia923_dat
hvars == <<month_order, hydro_outputs, month_i>>

vars == <<generators, heat_rate_file, year, pc, existing_gens, thermal_gens,
          null_heat_rates, unrealistic_heat_rates, thermal_gens_w_hr,
          thermal_gens_wo_hr, n_outliers, min_hr, max_hr, proposed_gens, result,
          call, cpc, window, similar_generators, avg, ovars, fvars, uvars, svars,
          hvars>>

-----------------------------------------------------------------------------
(* Program constants *)

\* 8.607 MMBTU/MWh, in thousandths
CoalFloor == 8607

\* 6.711 MMBTU/MWh, in thousandths
OtherFloor == 6711

\* int(len * 0.008) is (len * OutlierPerMille) \div 1000 for every len < 200000
OutlierPerMille == 8

\* calculate_avg_heat_rate(..., window=2)
InitialWindow == 2

\* window += 2
WindowStep == 2

\* while len(similar_generators) < 4
MinSimilar == 4

\* if window >= 90: break
MaxWindow == 90

ThermalPrimeMovers == {"CC", "GT", "IC", "ST"}

\* the dict fuels, as generators.replace({'Energy Source': fuels}) applies it:
\* a code that is no key of the dict is left as it is
fuels(code) ==
    CASE code \in {"LFG", "OBG"} -> "Bio_Gas"
      [] code \in {"AB", "WDS", "MSW"} -> "Bio_Solid"
      [] code \in {"BLQ", "WDL"} -> "Bio_Liquid"
      [] code \in {"NG", "OG", "PG"} -> "Gas"
      [] code = "DFO" -> "DistillateFuelOil"
      [] code = "JF" -> "ResidualFuelOil"
      [] code \in {"COAL", "PC"} -> "Coal"
      [] code = "GEO" -> "Geothermal"
      [] code = "NUC" -> "Uranium"
      [] code = "SUN" -> "Solar"
      [] code = "PUR" -> "Purchased_Steam"
      [] code = "WH" -> "Waste_Heat"
      [] code = "OTH" -> "Other"
      [] code = "WAT" -> "Water"
      [] code = "MWH" -> "Electricity"
      [] code = "WND" -> "Wind"
      [] OTHER -> code

-----------------------------------------------------------------------------
(* Heat-rate values *)

NaN == <<0, 0>>

Reading(r) == <<r, 1>>

isnull(h) == h = NaN

RECURSIVE GCD(_, _)
GCD(a, b) == IF b = 0 THEN a ELSE GCD(b, a % b)

\* float division sum / count, kept exact
Ratio(s, c) == IF c = 0 THEN NaN ELSE LET g == GCD(s, c) IN <<s \div g, c \div g>>

\* h < floor for a float h; a comparison with NaN is False
LessThan(h, floor) == (~isnull(h)) /\ h[1] < floor * h[2]

\* a <= b for two non-null values
Leq(a, b) == a[1] * b[2] <= b[1] * a[2]

\* a null (NaN) Operating Year; every comparison with it is False
NullYear == 0

-----------------------------------------------------------------------------
(* Table helpers *)

Labels(df) == {df[i].idx : i \in DOMAIN df}

\* df.loc[label]: the row carrying the label (labels of the tables it is used on
\* are unique)
Loc(df, label) == df[CHOOSE i \in DOMAIN df : df[i].idx = label]

\* the columns of the caller's table (all but the index label and Best Heat Rate)
Columns(r) == [plant |-> r.plant, pm |-> r.pm, es |-> r.es, oy |-> r.oy, status |-> r.status]

WithHR(r, label, h) ==
    [idx |-> label, plant |-> r.plant, pm |-> r.pm, es |-> r.es, oy |-> r.oy,
     status |-> r.status, hr |-> h]

RECURSIVE ConcatRange(_, _, _)
ConcatRange(dfs, lo, hi) ==
    IF lo > hi THEN <<>>
    ELSE IF lo = hi THEN dfs[lo]
    ELSE LET mid == (lo + hi) \div 2
         IN  ConcatRange(dfs, lo, mid) \o ConcatRange(dfs, mid + 1, hi)

\* pd.concat of a sequence of tables
Concat(dfs) == ConcatRange(dfs, 1, Len(dfs))

RECURSIVE SumHR(_, _, _)
\* sum of the Best Heat Rate column over the rows lo .. hi (readings, denominator 1)
SumHR(df, lo, hi) ==
    IF lo > hi THEN 0
    ELSE IF lo = hi THEN df[lo].hr[1]
    ELSE LET mid == (lo + hi) \div 2
         IN  SumHR(df, lo, mid) + SumHR(df, mid + 1, hi)

\* Series.mean() of the Best Heat Rate column of a table without nulls; NaN when empty
MeanHR(df) == Ratio(SumHR(df, 1, Len(df)), Len(df))

\* the table with a fresh RangeIndex 0 .. len-1 (what pd.merge returns)
RangeIndex(df) == [i \in DOMAIN df |-> [df[i] EXCEPT !.idx = i - 1]]

\* DataFrame.drop_duplicates(): the first of each run of rows equal in every column
\* is kept, with its label
drop_duplicates(df) ==
    LET keep == {i \in DOMAIN df :
                    \A j \in 1..(i - 1) :
                        ~(Columns(df[j]) = Columns(df[i]) /\ df[j].hr = df[i].hr)}
    IN  SelectSeq(df, LAMBDA r : (r.idx + 1) \in keep)

\* DataFrame.sort_values('Best Heat Rate') on a table without nulls: each row goes
\* to the position given by the number of rows below it.  Rows of equal heat rate
\* differ in nothing the function reads later, so their order is free (here: kept).
sort_values(df) ==
    LET Before(j, i) == \/ ~Leq(df[i].hr, df[j].hr)
                        \/ (df[j].hr = df[i].hr /\ j < i)
        place == {<<1 + Cardinality({j \in DOMAIN df : Before(j, i)}), i>> : i \in DOMAIN df}
    IN  [p \in DOMAIN df |-> df[(CHOOSE pl \in place : pl[1] = p)[2]]]

-----------------------------------------------------------------------------
(* assign_heat_rates_to_projects, lines 277-295: fuel names, the left join with *)
(* the year's observations, the thermal filter                                  *)

\* generators.replace({'Energy Source': fuels}): a new table, labels kept
ReplaceFuels(df) == [i \in DOMAIN df |-> [df[i] EXCEPT !.es = fuels(@)]]

\* the local name generators after line 277
LocalGenerators == ReplaceFuels(generators)

\* line 279 without the status filter
Operable_AnyStatus(df) == df

\* line 279
Operable(df) == SelectSeq(df, LAMBDA r : r.status = "Operable")

Proposed(df) == SelectSeq(df, LAMBDA r : r.status = "Proposed")

\* lines 285-289 without line 288: the rows of every year
heat_rate_data_AnyYear == ReplaceFuels(heat_rate_file)

\* lines 285-289: the file's rows of the year, fuels renamed
heat_rate_data ==
    ReplaceFuels(SelectSeq(heat_rate_file, LAMBDA o : o.year = year))

\* the rows a left row yields in pd.merge(how='left') on plant code, prime mover and
\* energy source: one per matching observation, or one with a null heat rate
JoinRow(e, obs) ==
    LET m == SelectSeq(obs, LAMBDA o : o.plant = e.plant /\ o.pm = e.pm /\ o.es = e.es)
    IN  IF m = <<>> THEN <<WithHR(e, 0, NaN)>>
        ELSE [i \in DOMAIN m |-> WithHR(e, 0, m[i].hr)]

\* lines 290-293
MergeHeatRates(existing, obs) ==
    drop_duplicates(RangeIndex(Concat([i \in DOMAIN existing |-> JoinRow(existing[i], obs)])))

\* line 295 left out: every joined row is kept
ThermalOnly_NoFilter(df) == df

\* line 295
ThermalOnly(df) == SelectSeq(df, LAMBDA r : r.pm \in ThermalPrimeMovers)

-----------------------------------------------------------------------------
(* lines 299-309: the null and unrealistic masks and the two tables *)

\* line 299
NullMask(df) == {df[i].idx : i \in {j \in DOMAIN df : isnull(df[j].hr)}}

\* lines 300-303 with "<=" for "<"
UnrealisticRow_AtFloor(r) ==
    \/ (r.es = "Coal" /\ ~isnull(r.hr) /\ r.hr[1] <= CoalFloor * r.hr[2])
    \/ (r.es # "Coal" /\ ~isnull(r.hr) /\ r.hr[1] <= OtherFloor * r.hr[2])

\* lines 300-303 with the floor 6.711 for every fuel
UnrealisticRow_OneFloor(r) == LessThan(r.hr, OtherFloor)

\* lines 300-303
UnrealisticRow(r) ==
    \/ (r.es = "Coal" /\ LessThan(r.hr, CoalFloor))
    \/ (r.es # "Coal" /\ LessThan(r.hr, OtherFloor))

\* lines 300-303 left out: no reading is flagged unrealistic
UnrealisticMask_None(df) == {}

UnrealisticMask(df) == {df[i].idx : i \in {j \in DOMAIN df : UnrealisticRow(df[j])}}

-----------------------------------------------------------------------------
(* lines 324-335: the clip bounds and the clipping loop *)

\* line 324 with the 0.5 % of the docstring
NOutliers_HalfPercent(df) == (Len(df) * 5) \div 1000

\* line 324 with 0.016 for 0.008
NOutliers_Twice(df) == (Len(df) * 2 * OutlierPerMille) \div 1000

\* line 324: int(len(thermal_gens_w_hr) * 0.008)
NOutliers(df) == (Len(df) * OutlierPerMille) \div 1000

\* line 326: the value at position n_outliers of the sorted table (0-based)
MinHR(sorted, n) == sorted[n + 1].hr

\* line 327: the value at position -1-n_outliers
MaxHR(sorted, n) == sorted[Len(sorted) - n].hr

RECURSIVE ClipLoop_LowOnly(_, _, _, _)
\* lines 333-335 without line 335
ClipLoop_LowOnly(df, n, lo, hi) ==
    IF n = 0 THEN df
    ELSE [ClipLoop_LowOnly(df, n - 1, lo, hi) EXCEPT ![n].hr = lo]

RECURSIVE ClipLoop(_, _, _, _)
\* lines 333-335, iterations 0 .. n-1: row i gets lo, then row -1-i gets hi
ClipLoop(df, n, lo, hi) ==
    IF n = 0 THEN df
    ELSE LET i == n - 1
             prev == ClipLoop(df, i, lo, hi)
             low == [prev EXCEPT ![i + 1].hr = lo]
         IN  [low EXCEPT ![Len(df) - i].hr = hi]

-----------------------------------------------------------------------------
(* lines 338-358: calculate_avg_heat_rate *)

\* lines 339-343 and 346-350
\* lines 339-343 with "vintage" for "vintage-window" at line 342
SimilarGenerators_OneSided(df, prime_mover, energy_source, vintage, w) ==
    SelectSeq(df, LAMBDA r : /\ r.pm = prime_mover
                             /\ r.es = energy_source
                             /\ r.oy # NullYear /\ vintage # NullYear
                             /\ r.oy >= vintage
                             /\ r.oy <= vintage + w)

SimilarGenerators(df, prime_mover, energy_source, vintage, w) ==
    SelectSeq(df, LAMBDA r : /\ r.pm = prime_mover
                             /\ r.es = energy_source
                             /\ r.oy # NullYear /\ vintage # NullYear
                             /\ r.oy >= vintage - w
                             /\ r.oy <= vintage + w)

RECURSIVE WhileLoop_ThreeSuffice(_, _, _, _, _)
\* the loop with "< 3" for "< 4"
WhileLoop_ThreeSuffice(df, prime_mover, energy_source, vintage, w0) ==
    IF Len(SimilarGenerators(df, prime_mover, energy_source, vintage, w0)) < MinSimilar - 1
    THEN LET w1 == w0 + WindowStep
         IN  IF w1 >= MaxWindow THEN w1
             ELSE WhileLoop_ThreeSuffice(df, prime_mover, energy_source, vintage, w1)
    ELSE w0

RECURSIVE WhileLoop(_, _, _, _, _)
\* lines 344-353: the window the loop ends with
WhileLoop(df, prime_mover, energy_source, vintage, w0) ==
    IF Len(SimilarGenerators(df, prime_mover, energy_source, vintage, w0)) < MinSimilar
    THEN LET w1 == w0 + WindowStep
         IN  IF w1 >= MaxWindow THEN w1
             ELSE WhileLoop(df, prime_mover, energy_source, vintage, w1)
    ELSE w0

\* line 358 without the prime mover filter
calculate_avg_heat_rate_AnyTechnology(df, prime_mover, energy_source, vintage) ==
    LET w == WhileLoop(df, prime_mover, energy_source, vintage, InitialWindow)
        similar ==
            SimilarGenerators(df, prime_mover, energy_source, vintage, w)
    IN  IF Len(similar) > 0
        THEN MeanHR(similar)
        ELSE MeanHR(df)

calculate_avg_heat_rate(df, prime_mover, energy_source, vintage) ==
    LET w == WhileLoop(df, prime_mover, energy_source, vintage, InitialWindow)
        similar ==
            SimilarGenerators(df, prime_mover, energy_source, vintage, w)
    IN  IF Len(similar) > 0
        THEN MeanHR(similar)
        ELSE MeanHR(SelectSeq(df, LAMBDA r : r.pm = prime_mover))

-----------------------------------------------------------------------------
(* lines 363-372 and 380-396 *)

\* lines 363-369: every row of thermal_gens_wo_hr gets the average of its like
AssignAverages(wo_hr, w_hr) ==
    [i \in DOMAIN wo_hr |->
        [wo_hr[i] EXCEPT !.hr = calculate_avg_heat_rate(w_hr, wo_hr[i].pm, wo_hr[i].es,
                                                        wo_hr[i].oy)]]

\* line 372 with how='inner'
MergeRow_Inner(e, thermal) ==
    LET m == SelectSeq(thermal, LAMBDA t : Columns(t) = Columns(e))
    IN  [i \in DOMAIN m |-> WithHR(e, 0, m[i].hr)]

\* the rows a row of existing_gens yields in the left merge of line 372, on every
\* column of existing_gens
MergeRow(e, thermal) ==
    LET m == SelectSeq(thermal, LAMBDA t : Columns(t) = Columns(e))
    IN  IF m = <<>> THEN <<WithHR(e, 0, NaN)>>
        ELSE [i \in DOMAIN m |-> WithHR(e, 0, m[i].hr)]

\* line 372
MergeExisting(existing, thermal) ==
    RangeIndex(Concat([i \in DOMAIN existing |-> MergeRow(existing[i], thermal)]))

\* lines 381, 386-391 with the unit's Operating Year as vintage (as line 366 has it)
ThermalProposed_OwnVintage(proposed, w_hr, yr) ==
    LET tp == ThermalOnly(proposed)
    IN  [i \in DOMAIN tp |->
            WithHR(tp[i], tp[i].idx,
                   calculate_avg_heat_rate(w_hr, tp[i].pm, tp[i].es, tp[i].oy))]

\* lines 381, 386-391: the thermal proposed rows, with the year as vintage
ThermalProposed(proposed, w_hr, yr) ==
    LET tp == ThermalOnly(proposed)
    IN  [i \in DOMAIN tp |->
            WithHR(tp[i], tp[i].idx, calculate_avg_heat_rate(w_hr, tp[i].pm, tp[i].es, yr))]

\* lines 382, 393
OtherProposed(proposed) ==
    LET op == SelectSeq(proposed, LAMBDA r : r.pm \notin ThermalPrimeMovers)
    IN  [i \in DOMAIN op |-> WithHR(op[i], op[i].idx, NaN)]

-----------------------------------------------------------------------------
(* The inputs: the caller's table, the observation file and the year *)

\* most free rows of the caller's table
MaxUnits == 2

\* most free rows of the observation file
MaxObs == 2

\* most rows of a small reference fleet
MaxBulk == 5

\* size of a large reference fleet (125 rows make n_outliers = 1)
ClipBulk == 125

Years == {2015}

Unit(plant, pm, es, oy, status) ==
    [plant |-> plant, pm |-> pm, es |-> es, oy |-> oy, status |-> status]

Obs(plant, pm, es, yr, h) ==
    [plant |-> plant, pm |-> pm, es |-> es, year |-> yr, hr |-> h]

\* the table with the labels 0 .. len-1
AsTable(rows) ==
    [i \in DOMAIN rows |->
        [idx |-> i - 1, plant |-> rows[i].plant, pm |-> rows[i].pm, es |-> rows[i].es,
         oy |-> rows[i].oy, status |-> rows[i].status]]

\* the sequences of at most max elements of S, as index tuples in ascending order
Picks(S, max) ==
    UNION {{f \in [1..n -> S] : \A i \in 1..(n - 1) : f[i] <= f[i + 1]} : n \in 0..max}

UnitTemplates ==
    << Unit(1, "ST", "COAL", 1990, "Operable"),
       Unit(1, "ST", "PC", 1990, "Operable"),
       Unit(1, "ST", "NG", 1990, "Operable"),
       Unit(1, "HY", "WAT", 1990, "Operable"),
       Unit(1, "ST", "COAL", 2016, "Proposed"),
       Unit(1, "HY", "WAT", 2016, "Proposed") >>

ObsTemplates ==
    << Obs(1, "ST", "COAL", 2015, Reading(6710)),
       Obs(1, "ST", "COAL", 2015, Reading(6711)),
       Obs(1, "ST", "COAL", 2015, Reading(8607)),
       Obs(1, "ST", "PC", 2015, Reading(6710)),
       Obs(1, "ST", "PC", 2015, Reading(6711)),
       Obs(1, "ST", "PC", 2015, Reading(8607)),
       Obs(1, "ST", "NG", 2015, Reading(6710)),
       Obs(1, "ST", "NG", 2015, Reading(6711)),
       Obs(1, "ST", "NG", 2015, Reading(8607)),
       Obs(1, "HY", "WAT", 2015, Reading(9000)),
       Obs(1, "ST", "COAL", 2014, Reading(9000)),
       Obs(1, "ST", "COAL", 2015, NaN) >>

\* a reference fleet of k coal steam units, each with one reading of the year
BulkVintage(i, step) == 1990 - step * ((i - 1) % 5)

BulkReading(i) == 9000 + ((i * 37) % 101) * 10

BulkUnits(k, step) ==
    [i \in 1..k |-> Unit(100 + i, "ST", "COAL", BulkVintage(i, step), "Operable")]

BulkObs(k) ==
    [i \in 1..k |-> Obs(100 + i, "ST", "COAL", 2015, Reading(BulkReading(i)))]

\* free rows and free observations, no fleet
JoinInputs ==
    {[gens |-> [i \in DOMAIN u |-> UnitTemplates[u[i]]],
      obs |-> [i \in DOMAIN o |-> ObsTemplates[o[i]]]] :
        u \in Picks(DOMAIN UnitTemplates, MaxUnits),
        o \in Picks(DOMAIN ObsTemplates, MaxObs)}

\* scrape.py fills an empty Operating Year of row i with 10000000 + i
FilledYear(i) == 10000000 + i

\* a unit beside the fleet: none, a hydro unit, a gas turbine with a valid reading,
\* a proposed coal steam unit, or a gas steam unit with a valid reading
ExtraUnits ==
    << [gens |-> <<>>, obs |-> <<>>],
       [gens |-> <<Unit(2, "HY", "WAT", 1990, "Operable")>>, obs |-> <<>>],
       [gens |-> <<Unit(2, "GT", "NG", 1990, "Operable")>>,
        obs |-> <<Obs(2, "GT", "NG", 2015, Reading(11000))>>],
       [gens |-> <<Unit(2, "ST", "COAL", 2020, "Proposed")>>, obs |-> <<>>],
       [gens |-> <<Unit(2, "ST", "NG", 1990, "Operable")>>,
        obs |-> <<Obs(2, "ST", "NG", 2015, Reading(11000))>>] >>

\* a small fleet, a unit beside it, and one more unit, without a reading or with
\* one below every floor
WindowInputs ==
    {[gens |-> BulkUnits(k, step) \o ExtraUnits[x].gens \o <<Unit(1, pm, es, oy, status)>>,
      obs |-> BulkObs(k) \o ExtraUnits[x].obs
              \o (IF low THEN <<Obs(1, pm, es, 2015, Reading(5000))>> ELSE <<>>)] :
        k \in 0..MaxBulk, step \in {0, 1, 30}, x \in DOMAIN ExtraUnits,
        pm \in {"ST", "GT", "HY"}, es \in {"COAL", "NG"},
        oy \in {1960, 1990, FilledYear(1)},
        status \in {"Operable", "Proposed"}, low \in BOOLEAN}

ClipProbes ==
    { [gens |-> <<>>, obs |-> <<>>],
      [gens |-> <<Unit(1, "ST", "COAL", 1990, "Operable")>>, obs |-> <<>>],
      [gens |-> <<Unit(1, "ST", "COAL", 2016, "Proposed")>>, obs |-> <<>>],
      [gens |-> <<Unit(1, "ST", "COAL", 1990, "Operable")>>,
       obs |-> <<Obs(1, "ST", "COAL", 2015, Reading(30000))>>],
      [gens |-> <<Unit(1, "ST", "COAL", 1990, "Operable")>>,
       obs |-> <<Obs(1, "ST", "COAL", 2015, Reading(8607))>>] }

\* a large fleet, so that rows are clipped
ClipInputs ==
    {[gens |-> BulkUnits(k, step) \o p.gens, obs |-> BulkObs(k) \o p.obs] :
        k \in {ClipBulk - 1, ClipBulk, 2 * ClipBulk}, step \in {0, 1}, p \in ClipProbes}

\* five coal steam units of the vintages 1990 .. 1994 with the readings 9.0, 9.5,
\* 10.0, 10.5 and 11.0, and a sixth of 1992 without a reading
ExampleInput ==
    [gens |-> [i \in 1..5 |-> Unit(200 + i, "ST", "COAL", 1989 + i, "Operable")]
              \o <<Unit(206, "ST", "COAL", 1992, "Operable")>>,
     obs |-> [i \in 1..5 |-> Obs(200 + i, "ST", "COAL", 2015, Reading(8500 + 500 * i))]]

\* a plant with two Operable coal steam units and a Proposed one, a plant with one
\* Operable gas steam unit and a Proposed one, and a plant with a Proposed unit only
UprateInput ==
    [gens |-> << Unit(301, "ST", "COAL", 1980, "Operable"),
                 Unit(301, "ST", "COAL", 1990, "Operable"),
                 Unit(301, "ST", "COAL", 2018, "Proposed"),
                 Unit(302, "ST", "NG", 1990, "Operable"),
                 Unit(302, "ST", "NG", 2018, "Proposed"),
                 Unit(303, "ST", "NG", 2018, "Proposed") >>,
     obs |-> << Obs(301, "ST", "COAL", 2015, Reading(9000)),
                Obs(302, "ST", "NG", 2015, Reading(11000)) >>]

\* two coal steam units with readings, of 1990 and of 1895, and two without, of
\* 1905 and of 1990
OrderInput ==
    [gens |-> << Unit(401, "ST", "COAL", 1990, "Operable"),
                 Unit(402, "ST", "COAL", 1895, "Operable"),
                 Unit(403, "ST", "COAL", 1905, "Operable"),
                 Unit(404, "ST", "COAL", 1990, "Operable"),
                 Unit(405, "ST", "COAL", 2017, "Proposed"),
                 Unit(406, "ST", "NG", 2018, "Proposed") >>,
     obs |-> << Obs(401, "ST", "COAL", 2015, Reading(9000)),
                Obs(402, "ST", "COAL", 2015, Reading(11000)) >>]

Inputs ==
    JoinInputs \cup WindowInputs \cup ClipInputs
        \cup {ExampleInput, UprateInput, OrderInput}

\* no call of calculate_avg_heat_rate is being followed
NoCall == [prime_mover |-> "", energy_source |-> "", vintage |-> NullYear]

\* what read_output_csv returns for a file it cannot read
None == [ok |-> FALSE, rows |-> <<>>]

\* finish_project_processing has not run
FinishIdle ==
    /\ new_gens = <<>>
    /\ uprates = <<>>

\* upload_generation_projects is not running
UploadIdle ==
    /\ output_files = [existing |-> None, new |-> None, uprates |-> None]
    /\ up_existing_gens = None
    /\ up_new_gens = None
    /\ up_uprates = None
    /\ up_generators = <<>>
    /\ upc = "idle"
    /\ carry_on = ""
    /\ db_statements = <<>>

\* no scrape is running
ScrapeIdle ==
    /\ downloads = {}
    /\ download_log = <<>>
    /\ log_exists = FALSE
    /\ fetched = <<>>
    /\ zip_file_list = <<>>

\* parse_eia923_dat is not running
HydroIdle ==
    /\ month_order = <<>>
    /\ hydro_outputs = <<>>
    /\ month_i = 0

Init ==
    /\ \E inp \in Inputs :
        /\ generators = AsTable(inp.gens)
        /\ heat_rate_file = inp.obs
    /\ year \in Years
    /\ pc = "start"
    /\ existing_gens = <<>>
    /\ thermal_gens = <<>>
    /\ null_heat_rates = {}
    /\ unrealistic_heat_rates = {}
    /\ thermal_gens_w_hr = <<>>
    /\ thermal_gens_wo_hr = <<>>
    /\ n_outliers = 0
    /\ min_hr = NaN
    /\ max_hr = NaN
    /\ proposed_gens = <<>>
    /\ result = <<>>
    /\ call = NoCall
    /\ cpc = "idle"
    /\ window = InitialWindow
    /\ similar_generators = <<>>
    /\ avg = NaN
    /\ todo = {}
    /\ thermal_proposed_gens = <<>>
    /\ FinishIdle
    /\ UploadIdle
    /\ ScrapeIdle
    /\ HydroIdle

-----------------------------------------------------------------------------
(* The steps of assign_heat_rates_to_projects *)

\* lines 277-295 with generators.replace(..., inplace=True): the caller's table
\* itself gets the fuel names
Join_InPlace ==
    /\ pc = "start"
    /\ generators' = LocalGenerators
    /\ existing_gens' = Operable(LocalGenerators)
    /\ thermal_gens' = ThermalOnly(MergeHeatRates(existing_gens', heat_rate_data))
    /\ pc' = "classify"
    /\ UNCHANGED <<heat_rate_file, year, null_heat_rates,
                   unrealistic_heat_rates, thermal_gens_w_hr, thermal_gens_wo_hr,
                   n_outliers, min_hr, max_hr, proposed_gens, result>>
    /\ UNCHANGED <<cvars, ovars, fvars, uvars, svars, hvars>>

\* lines 277-295
Join ==
    /\ pc = "start"
    /\ existing_gens' = Operable(LocalGenerators)
    /\ thermal_gens' = ThermalOnly(MergeHeatRates(existing_gens', heat_rate_data))
    /\ pc' = "classify"
    /\ UNCHANGED <<generators, heat_rate_file, year, null_heat_rates,
                   unrealistic_heat_rates, thermal_gens_w_hr, thermal_gens_wo_hr,
                   n_outliers, min_hr, max_hr, proposed_gens, result>>
    /\ UNCHANGED <<cvars, ovars, fvars, uvars, svars, hvars>>

\* lines 299-309
Classify ==
    /\ pc = "classify"
    /\ null_heat_rates' = NullMask(thermal_gens)
    /\ unrealistic_heat_rates' = UnrealisticMask(thermal_gens)
    /\ thermal_gens_w_hr' =
          SelectSeq(thermal_gens, LAMBDA r : r.idx \notin null_heat_rates'
                                             /\ r.idx \notin unrealistic_heat_rates')
    /\ thermal_gens_wo_hr' =
          SelectSeq(thermal_gens, LAMBDA r : r.idx \in null_heat_rates'
                                             \/ r.idx \in unrealistic_heat_rates')
    /\ pc' = "clip"
    /\ UNCHANGED <<generators, heat_rate_file, year, existing_gens, thermal_gens,
                   n_outliers, min_hr, max_hr, proposed_gens, result>>
    /\ UNCHANGED <<cvars, ovars, fvars, uvars, svars, hvars>>

\* lines 324-335; thermal_gens_w_hr.index[n_outliers] of an empty table is an
\* IndexError (line 326), raised to the caller
Clip ==
    /\ pc = "clip"
    /\ n_outliers' = NOutliers(thermal_gens_w_hr)
    /\ IF Len(thermal_gens_w_hr) = 0
       THEN /\ pc' = "raised"
            /\ UNCHANGED <<thermal_gens_w_hr, min_hr, max_hr>>
       ELSE LET sorted == sort_values(thermal_gens_w_hr)
            IN  /\ min_hr' = MinHR(sorted, n_outliers')
                /\ max_hr' = MaxHR(sorted, n_outliers')
                /\ thermal_gens_w_hr' = ClipLoop(sorted, n_outliers', min_hr', max_hr')
                /\ pc' = "impute"
    /\ UNCHANGED <<generators, heat_rate_file, year, existing_gens, thermal_gens,
                   null_heat_rates, unrealistic_heat_rates, thermal_gens_wo_hr,
                   proposed_gens, result>>
    /\ UNCHANGED <<cvars, ovars, fvars, uvars, svars, hvars>>

\* lines 363-369
AssignExisting ==
    /\ pc = "impute"
    /\ thermal_gens_wo_hr' = AssignAverages(thermal_gens_wo_hr, thermal_gens_w_hr)
    /\ pc' = "merge"
    /\ UNCHANGED <<generators, heat_rate_file, year, existing_gens, thermal_gens,
                   null_heat_rates, unrealistic_heat_rates, thermal_gens_w_hr,
                   n_outliers, min_hr, max_hr, proposed_gens, result>>
    /\ UNCHANGED <<cvars, ovars, fvars, uvars, svars, hvars>>

\* lines 371-372 (the histogram of lines 376-378 only writes a PDF file)
Merge ==
    /\ pc = "merge"
    /\ thermal_gens' = thermal_gens_w_hr \o thermal_gens_wo_hr
    /\ existing_gens' = MergeExisting(existing_gens, thermal_gens')
    /\ pc' = "proposed"
    /\ UNCHANGED <<generators, heat_rate_file, year, null_heat_rates,
                   unrealistic_heat_rates, thermal_gens_w_hr, thermal_gens_wo_hr,
                   n_outliers, min_hr, max_hr, proposed_gens, result>>
    /\ UNCHANGED <<cvars, ovars, fvars, uvars, svars, hvars>>

\* lines 380-394
AssignProposed ==
    /\ pc = "proposed"
    /\ proposed_gens' =
          ThermalProposed(Proposed(LocalGenerators), thermal_gens_w_hr, year)
          \o OtherProposed(Proposed(LocalGenerators))
    /\ pc' = "return"
    /\ UNCHANGED <<generators, heat_rate_file, year, existing_gens, thermal_gens,
                   null_heat_rates, unrealistic_heat_rates, thermal_gens_w_hr,
                   thermal_gens_wo_hr, n_outliers, min_hr, max_hr, result>>
    /\ UNCHANGED <<cvars, ovars, fvars, uvars, svars, hvars>>

\* line 396
Return ==
    /\ pc = "return"
    /\ result' = existing_gens \o proposed_gens
    /\ pc' = "done"
    /\ UNCHANGED <<generators, heat_rate_file, year, existing_gens, thermal_gens,
                   null_heat_rates, unrealistic_heat_rates, thermal_gens_w_hr,
                   thermal_gens_wo_hr, n_outliers, min_hr, max_hr, proposed_gens>>
    /\ UNCHANGED <<cvars, ovars, fvars, uvars, svars, hvars>>

\* finish_project_processing, lines 437-441: the Operable rows of the returned
\* table that share plant, prime mover and energy source with a Proposed row
existing_units_for_proposed_gen(df, r) ==
    SelectSeq(Operable(df), LAMBDA x : x.plant = r.plant /\ x.pm = r.pm /\ x.es = r.es)

\* line 444
IsUprate(df, r) == Len(existing_units_for_proposed_gen(df, r)) = 1

\* line 442
IsNewProject(df, r) == Len(existing_units_for_proposed_gen(df, r)) = 0

\* finish_project_processing, lines 426-456, on the table line 425 got: the loop of
\* lines 433-448 appends a Proposed row to new_gens, to uprates, or (line 448) only
\* prints; the Operable rows go to the existing-projects file as they are
Finish ==
    /\ pc = "done"
    /\ new_gens' = SelectSeq(Proposed(result), LAMBDA r : IsNewProject(result, r))
    /\ uprates' = SelectSeq(Proposed(result), LAMBDA r : IsUprate(result, r))
    /\ pc' = "finished"
    /\ UNCHANGED <<generators, heat_rate_file, year, existing_gens, thermal_gens,
                   null_heat_rates, unrealistic_heat_rates, thermal_gens_w_hr,
                   thermal_gens_wo_hr, n_outliers, min_hr, max_hr, proposed_gens,
                   result>>
    /\ UNCHANGED <<cvars, ovars, uvars, svars, hvars>>

Next ==
    \/ Join
    \/ Classify
    \/ Clip
    \/ AssignExisting
    \/ Merge
    \/ AssignProposed
    \/ Return
    \/ Finish

Spec == Init /\ [][Next]_vars

-----------------------------------------------------------------------------
(* One call of calculate_avg_heat_rate (lines 338-358), statement by statement, *)
(* on a valid table as lines 363-369 and 386-391 pass it                        *)

\* the valid table of a fleet of k units, sorted as line 325 leaves it, with or
\* without a unit more whose Operating Year is null
ValidTables ==
    {sort_values(
        [i \in 1..k |-> WithHR(Unit(100 + i, "ST", "Coal", BulkVintage(i, step), "Operable"),
                               i - 1, Reading(BulkReading(i)))]
        \o (IF nullrow
            THEN <<WithHR(Unit(1, "ST", "Coal", NullYear, "Operable"), k, Reading(12000))>>
            ELSE <<>>)) :
        k \in 0..MaxBulk, step \in {0, 1, 30}, nullrow \in BOOLEAN}

\* the calls: a prime mover, a fuel and a vintage, which may be null
Calls ==
    [prime_mover : {"ST", "GT"}, energy_source : {"Coal", "Gas"},
     vintage : {NullYear, 1960, 1990, 2015, FilledYear(1)}]

CallInit ==
    /\ thermal_gens_w_hr \in ValidTables
    /\ call \in Calls
    /\ cpc = "select"
    /\ window = InitialWindow
    /\ similar_generators = <<>>
    /\ avg = NaN
    /\ generators = <<>>
    /\ heat_rate_file = <<>>
    /\ year \in Years
    /\ pc = "impute"
    /\ existing_gens = <<>>
    /\ thermal_gens = <<>>
    /\ null_heat_rates = {}
    /\ unrealistic_heat_rates = {}
    /\ thermal_gens_wo_hr = <<>>
    /\ n_outliers = 0
    /\ min_hr = NaN
    /\ max_hr = NaN
    /\ proposed_gens = <<>>
    /\ result = <<>>
    /\ todo = {}
    /\ thermal_proposed_gens = <<>>
    /\ FinishIdle
    /\ UploadIdle
    /\ ScrapeIdle
    /\ HydroIdle

\* the variables of assign_heat_rates_to_projects, which a call only reads
avars == <<generators, heat_rate_file, year, pc, existing_gens, thermal_gens,
           null_heat_rates, unrealistic_heat_rates, thermal_gens_w_hr,
           thermal_gens_wo_hr, n_outliers, min_hr, max_hr, proposed_gens, result>>

\* lines 339-343
SelectSimilar ==
    /\ cpc = "select"
    /\ similar_generators' = SimilarGenerators(thermal_gens_w_hr, call.prime_mover,
                                               call.energy_source, call.vintage, window)
    /\ cpc' = "while"
    /\ UNCHANGED <<call, window, avg>>
    /\ UNCHANGED <<avars, ovars, fvars, uvars, svars, hvars>>

\* lines 344-353 with "window > 90" at line 352
WidenWindow_BreakAbove ==
    /\ cpc = "while"
    /\ Len(similar_generators) < MinSimilar
    /\ window' = window + WindowStep
    /\ similar_generators' = SimilarGenerators(thermal_gens_w_hr, call.prime_mover,
                                               call.energy_source, call.vintage, window')
    /\ cpc' = IF window' > MaxWindow THEN "if" ELSE "while"
    /\ UNCHANGED <<call, avg>>
    /\ UNCHANGED <<avars, ovars, fvars, uvars, svars, hvars>>

\* line 344 true, lines 345-353: one pass of the loop body
WidenWindow ==
    /\ cpc = "while"
    /\ Len(similar_generators) < MinSimilar
    /\ window' = window + WindowStep
    /\ similar_generators' = SimilarGenerators(thermal_gens_w_hr, call.prime_mover,
                                               call.energy_source, call.vintage, window')
    /\ cpc' = IF window' >= MaxWindow THEN "if" ELSE "while"
    /\ UNCHANGED <<call, avg>>
    /\ UNCHANGED <<avars, ovars, fvars, uvars, svars, hvars>>

\* line 344 false
LeaveLoop ==
    /\ cpc = "while"
    /\ Len(similar_generators) >= MinSimilar
    /\ cpc' = "if"
    /\ UNCHANGED <<call, window, similar_generators, avg>>
    /\ UNCHANGED <<avars, ovars, fvars, uvars, svars, hvars>>

\* lines 354-358
ReturnMean ==
    /\ cpc = "if"
    /\ avg' = IF Len(similar_generators) > 0
              THEN MeanHR(similar_generators)
              ELSE MeanHR(SelectSeq(thermal_gens_w_hr,
                                    LAMBDA r : r.pm = call.prime_mover))
    /\ cpc' = "returned"
    /\ UNCHANGED <<call, window, similar_generators>>
    /\ UNCHANGED <<avars, ovars, fvars, uvars, svars, hvars>>

CallNext ==
    \/ SelectSimilar
    \/ WidenWindow
    \/ LeaveLoop
    \/ ReturnMean

\* the statements of the call run one after the other, so a statement that can
\* run does run
CallSpec == CallInit /\ [][CallNext]_vars /\ WF_vars(CallNext)

-----------------------------------------------------------------------------
(* upload_generation_projects (lines 459-1040) up to the last statement sent to *)
(* the database.  A processed file is readable or not, and a readable file is   *)
(* a sequence of rows; the energy sources in it are the names line 277 gives.   *)
(* The heat rate of a row of a file is a reading or empty.                      *)

\* most rows of a processed file
MaxFileRows == 2

\* a row of a processed file, for a unit that reported the EIA fuel code
FileRow(plant, pm, code, cap, h) ==
    [plant |-> plant, pm |-> pm, es |-> fuels(code), cap |-> cap, hr |-> h]

\* a file read_csv raises on (missing, or written from an empty table)
Unreadable == [ok |-> FALSE, rows |-> <<>>]

ExistingRows ==
    << FileRow(1, "ST", "COAL", 100, Reading(9000)),
       FileRow(1, "ST", "COAL", 300, Reading(10000)),
       FileRow(2, "ST", "NUC", 1000, Reading(10400)),
       FileRow(4, "ST", "PUR", 20, NaN),
       FileRow(6, "GT", "NG", 0, Reading(9000)),
       FileRow(6, "GT", "NG", 0, Reading(10000)) >>

NewRows ==
    << FileRow(3, "BA", "MWH", 10, NaN),
       FileRow(5, "GT", "OTH", 50, Reading(11000)),
       FileRow(7, "ST", "GEO", 50, NaN) >>

\* the files with at most MaxFileRows of the rows, and the unreadable file
FilesOf(rows) ==
    {[ok |-> TRUE, rows |-> [i \in DOMAIN p |-> rows[p[i]]]] :
        p \in Picks(DOMAIN rows, MaxFileRows)} \cup {Unreadable}

OutputFiles ==
    {[existing |-> e, new |-> n, uprates |-> u] :
        e \in FilesOf(ExistingRows), n \in FilesOf(NewRows),
        u \in {Unreadable, [ok |-> TRUE, rows |-> <<ExistingRows[1]>>]}}

\* the answers a user may type at the prompt of lines 638-646
Answers == {"y", "n", "Y", ""}

\* lines 549-554: the table with the labels 0 .. len-1, or None
read_output_csv(file) ==
    IF file.ok
    THEN [ok |-> TRUE,
          rows |-> [i \in DOMAIN file.rows |->
                      [idx |-> i - 1, plant |-> file.rows[i].plant, pm |-> file.rows[i].pm,
                       es |-> file.rows[i].es, cap |-> file.rows[i].cap,
                       hr |-> file.rows[i].hr]]]
    ELSE None

\* line 571: pd.concat skips a None and keeps the labels of each table
ConcatFiles(a, b) == a.rows \o b.rows

ignore_energy_sources == {"Purchased_Steam", "Electricity"}

\* lines 582-583: DataFrame.drop(labels) removes every row that carries one of
\* the labels of the rows to ignore
DropIgnored(df) ==
    LET labels == {df[i].idx : i \in {j \in DOMAIN df : df[j].es \in ignore_energy_sources}}
    IN  SelectSeq(df, LAMBDA r : r.idx \notin labels)

\* line 584
ReplaceOther(df) ==
    [i \in DOMAIN df |-> [df[i] EXCEPT !.es = IF @ = "Other" THEN "Gas" ELSE @]]

index_cols(r) == <<r.plant, r.pm, r.es>>

\* the rows of one group of groupby(index_cols)
Group(df, key) == SelectSeq(df, LAMBDA r : index_cols(r) = key)

\* the sum of two values, kept exact
AddFrac(a, b) == Ratio(a[1] * b[2] + b[1] * a[2], a[2] * b[2])

RECURSIVE SumProducts(_, _)
\* (d * w).sum() over the first k rows of a group: Series.sum skips the NaN products
SumProducts(group, k) ==
    IF k = 0 THEN <<0, 1>>
    ELSE IF isnull(group[k].hr) THEN SumProducts(group, k - 1)
    ELSE AddFrac(SumProducts(group, k - 1),
                 <<group[k].hr[1] * group[k].cap, group[k].hr[2]>>)

RECURSIVE SumCap(_, _)
\* w.sum() over the first k rows of a group
SumCap(group, k) == IF k = 0 THEN 0 ELSE SumCap(group, k - 1) + group[k].cap

\* d.mean() of line 596: the mean of the non-null heat rates of the group
MeanOfGroup(group) ==
    LET known == SelectSeq(group, LAMBDA r : ~isnull(r.hr))
        s == SumProducts([i \in DOMAIN known |-> [known[i] EXCEPT !.cap = 1]], Len(known))
    IN  IF known = <<>> THEN NaN ELSE Ratio(s[1], s[2] * Len(known))

\* lines 587-596: both sums are numpy floats, and a numpy division by zero gives
\* nan (0.0 / 0.0, capacities are not negative) with a warning and raises
\* nothing, so the except branch of line 595 is never taken
weighted_avg(group) ==
    LET s == SumProducts(group, Len(group))
        w == SumCap(group, Len(group))
    IN  IF w = 0 THEN NaN ELSE Ratio(s[1], s[2] * w)

\* .replace(0, float('nan')) of line 601
ReplaceZero(h) == IF h = <<0, 1>> THEN NaN ELSE h

\* lines 598-604: the weighted average of its group joins every row (column 0) and
\* Best Heat Rate is dropped; the merge numbers the rows anew
WithWeightedAverages(df) ==
    [i \in DOMAIN df |->
        [idx |-> i - 1, plant |-> df[i].plant, pm |-> df[i].pm, es |-> df[i].es,
         cap |-> df[i].cap,
         full_load_heat_rate |-> ReplaceZero(weighted_avg(Group(df, index_cols(df[i]))))]]

RECURSIVE SortedPlants(_)
\* the plant codes of a set in ascending order
SortedPlants(S) ==
    IF S = {} THEN <<>>
    ELSE LET least == CHOOSE x \in S : \A y \in S : x <= y
         IN  <<least>> \o SortedPlants(S \ {least})

\* lines 606-612: the right merge with the table of the groups puts the rows in
\* the order of the groups (the plants of the files have one technology and fuel
\* each) and adds the summed capacity of the group
WithCapacityLimits(df) ==
    LET plants == SortedPlants({df[i].plant : i \in DOMAIN df})
        sorted == Concat([k \in DOMAIN plants |-> SelectSeq(df, LAMBDA r : r.plant = plants[k])])
    IN  [i \in DOMAIN sorted |->
            [idx |-> i - 1, plant |-> sorted[i].plant, pm |-> sorted[i].pm,
             es |-> sorted[i].es, cap |-> sorted[i].cap,
             full_load_heat_rate |-> sorted[i].full_load_heat_rate,
             capacity_limit_mw |->
                LET group == Group(sorted, index_cols(sorted[i]))
                IN  SumCap(group, Len(group))]]

\* the list of line 616
baseload_energy_sources == {"Nuclear", "Coal", "Geothermal"}

\* the list of line 618
variable_prime_movers == {"HY", "PV", "WT"}

\* lines 614-622: the files carry no column Cogen, so is_cogen is False (line 620)
WithFlags(df) ==
    [i \in DOMAIN df |->
        [idx |-> df[i].idx, plant |-> df[i].plant, pm |-> df[i].pm, es |-> df[i].es,
         cap |-> df[i].cap, full_load_heat_rate |-> df[i].full_load_heat_rate,
         capacity_limit_mw |-> df[i].capacity_limit_mw,
         is_baseload |-> df[i].es \in baseload_energy_sources,
         is_variable |-> df[i].pm \in variable_prime_movers,
         is_cogen |-> FALSE]]

\* a statement sent with connect_to_db_and_run_query or connect_to_db_and_push_df
Statement(line, verb) == [line |-> line, verb |-> verb]

\* the statement as the n-th of the program text
Numbered(n, s) == [no |-> n, line |-> s.line, verb |-> s.verb]

\* the statements of lines 655-1040 in the order of the program text
StatementList ==
    << Statement(656, "ALTER"), Statement(659, "ALTER"), Statement(666, "DELETE"),
       Statement(671, "DELETE"), Statement(676, "DELETE"), Statement(681, "DELETE"),
       Statement(688, "DELETE"), Statement(698, "SELECT"), Statement(707, "INSERT"),
       Statement(714, "SELECT"), Statement(719, "UPDATE"), Statement(727, "UPDATE"),
       Statement(733, "SELECT"), Statement(740, "UPDATE"), Statement(747, "SELECT"),
       Statement(758, "UPDATE"), Statement(771, "SELECT"), Statement(779, "SELECT"),
       Statement(788, "DELETE"), Statement(796, "UPDATE"), Statement(796, "UPDATE"),
       Statement(796, "UPDATE"), Statement(796, "UPDATE"), Statement(806, "UPDATE"),
       Statement(814, "SELECT"), Statement(820, "INSERT"), Statement(826, "ALTER"),
       Statement(829, "ALTER"), Statement(835, "SELECT"), Statement(850, "INSERT"),
       Statement(862, "INSERT"), Statement(881, "INSERT"), Statement(916, "DELETE"),
       Statement(921, "DELETE"), Statement(926, "DELETE"), Statement(931, "DELETE"),
       Statement(938, "DELETE"), Statement(947, "SELECT"), Statement(951, "INSERT"),
       Statement(958, "SELECT"), Statement(963, "INSERT"), Statement(971, "SELECT"),
       Statement(976, "SELECT"), Statement(999, "INSERT"), Statement(1012, "INSERT"),
       Statement(1040, "INSERT") >>

Statements == [n \in DOMAIN StatementList |-> Numbered(n, StatementList[n])]

\* the query whose answer line 783 tests, and the statement sent only when the
\* answer counts plants without a load zone
TestedLine == 779

ConditionalLine == 788

\* assign_heat_rates_to_projects and calculate_avg_heat_rate are not running
AssignIdle ==
    /\ generators = <<>>
    /\ heat_rate_file = <<>>
    /\ year \in Years
    /\ pc = "idle"
    /\ existing_gens = <<>>
    /\ thermal_gens = <<>>
    /\ null_heat_rates = {}
    /\ unrealistic_heat_rates = {}
    /\ thermal_gens_w_hr = <<>>
    /\ thermal_gens_wo_hr = <<>>
    /\ n_outliers = 0
    /\ min_hr = NaN
    /\ max_hr = NaN
    /\ proposed_gens = <<>>
    /\ result = <<>>
    /\ call = NoCall
    /\ cpc = "idle"
    /\ window = InitialWindow
    /\ similar_generators = <<>>
    /\ avg = NaN
    /\ todo = {}
    /\ thermal_proposed_gens = <<>>

\* the call upload_generation_projects(year) with the three files as they lie in
\* processed_data
UploadInit ==
    /\ output_files \in OutputFiles
    /\ up_existing_gens = None
    /\ up_new_gens = None
    /\ up_uprates = None
    /\ up_generators = <<>>
    /\ upc = "read"
    /\ carry_on = ""
    /\ db_statements = <<>>
    /\ AssignIdle
    /\ FinishIdle
    /\ ScrapeIdle
    /\ HydroIdle

\* what upload_generation_projects leaves alone
notUpload == <<avars, cvars, ovars, fvars, svars, hvars>>

\* lines 556-558
ReadOutputs ==
    /\ upc = "read"
    /\ up_existing_gens' = read_output_csv(output_files.existing)
    /\ up_new_gens' = read_output_csv(output_files.new)
    /\ up_uprates' = read_output_csv(output_files.uprates)
    /\ upc' = "summary"
    /\ UNCHANGED <<output_files, up_generators, carry_on, db_statements>>
    /\ UNCHANGED notUpload

\* lines 559-569: both branches take len(existing_gens) and len(new_gens), and
\* len(None) raises TypeError
PrintSummary ==
    /\ upc = "summary"
    /\ upc' = IF up_existing_gens = None \/ up_new_gens = None THEN "raised" ELSE "concat"
    /\ UNCHANGED <<output_files, up_existing_gens, up_new_gens, up_uprates,
                   up_generators, carry_on, db_statements>>
    /\ UNCHANGED notUpload

\* line 571
ConcatGenerators ==
    /\ upc = "concat"
    /\ up_generators' = ConcatFiles(up_existing_gens, up_new_gens)
    /\ upc' = "drop"
    /\ UNCHANGED <<output_files, up_existing_gens, up_new_gens, up_uprates,
                   carry_on, db_statements>>
    /\ UNCHANGED notUpload

\* lines 573-583
DropStep ==
    /\ upc = "drop"
    /\ up_generators' = DropIgnored(up_generators)
    /\ upc' = "replace"
    /\ UNCHANGED <<output_files, up_existing_gens, up_new_gens, up_uprates,
                   carry_on, db_statements>>
    /\ UNCHANGED notUpload

\* line 584
ReplaceStep ==
    /\ upc = "replace"
    /\ up_generators' = ReplaceOther(up_generators)
    /\ upc' = "average"
    /\ UNCHANGED <<output_files, up_existing_gens, up_new_gens, up_uprates,
                   carry_on, db_statements>>
    /\ UNCHANGED notUpload

\* lines 598-604
AverageStep ==
    /\ upc = "average"
    /\ up_generators' = WithWeightedAverages(up_generators)
    /\ upc' = "limits"
    /\ UNCHANGED <<output_files, up_existing_gens, up_new_gens, up_uprates,
                   carry_on, db_statements>>
    /\ UNCHANGED notUpload

\* lines 606-612
LimitStep ==
    /\ upc = "limits"
    /\ up_generators' = WithCapacityLimits(up_generators)
    /\ upc' = "flags"
    /\ UNCHANGED <<output_files, up_existing_gens, up_new_gens, up_uprates,
                   carry_on, db_statements>>
    /\ UNCHANGED notUpload

\* lines 614-636 (the renaming of the columns keeps the values)
FlagStep ==
    /\ upc = "flags"
    /\ up_generators' = WithFlags(up_generators)
    /\ upc' = "prompt"
    /\ UNCHANGED <<output_files, up_existing_gens, up_new_gens, up_uprates,
                   carry_on, db_statements>>
    /\ UNCHANGED notUpload

\* lines 638-641: the first prompt
Prompt ==
    /\ upc = "prompt"
    /\ carry_on' \in Answers
    /\ upc' = "asked"
    /\ UNCHANGED <<output_files, up_existing_gens, up_new_gens, up_uprates,
                   up_generators, db_statements>>
    /\ UNCHANGED notUpload

\* lines 642-646: the loop asks again while the answer is neither y nor n
PromptAgain ==
    /\ upc = "asked"
    /\ carry_on \notin {"y", "n"}
    /\ carry_on' \in Answers
    /\ UNCHANGED <<output_files, up_existing_gens, up_new_gens, up_uprates,
                   up_generators, upc, db_statements>>
    /\ UNCHANGED notUpload

\* lines 642-648 with the loop left on every answer
Decide_AnyAnswer ==
    /\ upc = "asked"
    /\ upc' = IF carry_on = "n" THEN "exit" ELSE "push"
    /\ UNCHANGED <<output_files, up_existing_gens, up_new_gens, up_uprates,
                   up_generators, carry_on, db_statements>>
    /\ UNCHANGED notUpload

\* lines 642 and 647-648: the loop is left on y or n, and n ends the run
Decide ==
    /\ upc = "asked"
    /\ carry_on \in {"y", "n"}
    /\ upc' = IF carry_on = "n" THEN "exit" ELSE "push"
    /\ UNCHANGED <<output_files, up_existing_gens, up_new_gens, up_uprates,
                   up_generators, carry_on, db_statements>>
    /\ UNCHANGED notUpload

\* the statements that may be sent next
NextStatements ==
    IF db_statements = <<>> THEN {1}
    ELSE LET last == db_statements[Len(db_statements)]
         IN  {n \in DOMAIN Statements :
                \/ n = last.no + 1
                \/ /\ last.line = TestedLine
                   /\ Statements[last.no + 1].line = ConditionalLine
                   /\ n = last.no + 2}

\* lines 655-1040, one statement at a time
SendStatement ==
    /\ upc = "push"
    /\ \E n \in NextStatements : db_statements' = Append(db_statements, Statements[n])
    /\ UNCHANGED <<output_files, up_existing_gens, up_new_gens, up_uprates,
                   up_generators, upc, carry_on>>
    /\ UNCHANGED notUpload

\* the last statement is sent
UploadDone ==
    /\ upc = "push"
    /\ NextStatements = {}
    /\ upc' = "done"
    /\ UNCHANGED <<output_files, up_existing_gens, up_new_gens, up_uprates,
                   up_generators, carry_on, db_statements>>
    /\ UNCHANGED notUpload

UploadNext ==
    \/ ReadOutputs
    \/ PrintSummary
    \/ ConcatGenerators
    \/ DropStep
    \/ ReplaceStep
    \/ AverageStep
    \/ LimitStep
    \/ FlagStep
    \/ Prompt
    \/ PromptAgain
    \/ Decide
    \/ SendStatement
    \/ UploadDone

UploadSpec == UploadInit /\ [][UploadNext]_vars

-----------------------------------------------------------------------------
(* assign_heat_rates_to_projects with the loops of lines 363-369 and 386-391   *)
(* taken one row at a time, the rows in any order                              *)

\* the table with the heat rate of the row labelled idx set to h
SetHR(df, idx, h) == [i \in DOMAIN df |-> IF df[i].idx = idx THEN [df[i] EXCEPT !.hr = h] ELSE df[i]]

\* line 363: the loop starts
BeginExisting ==
    /\ pc = "impute"
    /\ todo' = Labels(thermal_gens_wo_hr)
    /\ pc' = "impute_loop"
    /\ UNCHANGED <<generators, heat_rate_file, year, existing_gens, thermal_gens,
                   null_heat_rates, unrealistic_heat_rates, thermal_gens_w_hr,
                   thermal_gens_wo_hr, n_outliers, min_hr, max_hr, proposed_gens,
                   result, thermal_proposed_gens>>
    /\ UNCHANGED <<cvars, fvars, uvars, svars, hvars>>

\* lines 364-369 with the rows that have their average among the rows averaged
AssignOne_ReadsAssigned ==
    /\ pc = "impute_loop"
    /\ \E idx \in todo :
          LET r == Loc(thermal_gens_wo_hr, idx)
              done == SelectSeq(thermal_gens_wo_hr, LAMBDA x : x.idx \notin todo)
          IN  /\ thermal_gens_wo_hr' =
                    SetHR(thermal_gens_wo_hr, idx,
                          calculate_avg_heat_rate(thermal_gens_w_hr \o done, r.pm, r.es, r.oy))
              /\ todo' = todo \ {idx}
    /\ UNCHANGED <<generators, heat_rate_file, year, pc, existing_gens, thermal_gens,
                   null_heat_rates, unrealistic_heat_rates, thermal_gens_w_hr,
                   n_outliers, min_hr, max_hr, proposed_gens, result,
                   thermal_proposed_gens>>
    /\ UNCHANGED <<cvars, fvars, uvars, svars, hvars>>

\* lines 364-369: one pass of the loop
AssignOne ==
    /\ pc = "impute_loop"
    /\ \E idx \in todo :
          LET r == Loc(thermal_gens_wo_hr, idx)
          IN  /\ thermal_gens_wo_hr' =
                    SetHR(thermal_gens_wo_hr, idx,
                          calculate_avg_heat_rate(thermal_gens_w_hr, r.pm, r.es, r.oy))
              /\ todo' = todo \ {idx}
    /\ UNCHANGED <<generators, heat_rate_file, year, pc, existing_gens, thermal_gens,
                   null_heat_rates, unrealistic_heat_rates, thermal_gens_w_hr,
                   n_outliers, min_hr, max_hr, proposed_gens, result,
                   thermal_proposed_gens>>
    /\ UNCHANGED <<cvars, fvars, uvars, svars, hvars>>

\* line 363: the loop is through
EndExisting ==
    /\ pc = "impute_loop"
    /\ todo = {}
    /\ pc' = "merge"
    /\ UNCHANGED <<generators, heat_rate_file, year, existing_gens, thermal_gens,
                   null_heat_rates, unrealistic_heat_rates, thermal_gens_w_hr,
                   thermal_gens_wo_hr, n_outliers, min_hr, max_hr, proposed_gens,
                   result>>
    /\ UNCHANGED <<cvars, ovars, fvars, uvars, svars, hvars>>

\* lines 380-386: the thermal proposed rows, no heat rate yet
BeginProposed ==
    /\ pc = "proposed"
    /\ thermal_proposed_gens' =
          LET tp == ThermalOnly(Proposed(LocalGenerators))
          IN  [i \in DOMAIN tp |-> WithHR(tp[i], tp[i].idx, NaN)]
    /\ todo' = Labels(ThermalOnly(Proposed(LocalGenerators)))
    /\ pc' = "proposed_loop"
    /\ UNCHANGED <<generators, heat_rate_file, year, existing_gens, thermal_gens,
                   null_heat_rates, unrealistic_heat_rates, thermal_gens_w_hr,
                   thermal_gens_wo_hr, n_outliers, min_hr, max_hr, proposed_gens,
                   result>>
    /\ UNCHANGED <<cvars, fvars, uvars, svars, hvars>>

\* lines 387-391: one pass of the loop
AssignOneProposed ==
    /\ pc = "proposed_loop"
    /\ \E idx \in todo :
          LET r == Loc(thermal_proposed_gens, idx)
          IN  /\ thermal_proposed_gens' =
                    SetHR(thermal_proposed_gens, idx,
                          calculate_avg_heat_rate(thermal_gens_w_hr, r.pm, r.es, year))
              /\ todo' = todo \ {idx}
    /\ UNCHANGED <<generators, heat_rate_file, year, pc, existing_gens, thermal_gens,
                   null_heat_rates, unrealistic_heat_rates, thermal_gens_w_hr,
                   thermal_gens_wo_hr, n_outliers, min_hr, max_hr, proposed_gens,
                   result>>
    /\ UNCHANGED <<cvars, fvars, uvars, svars, hvars>>

\* lines 393-394
EndProposed ==
    /\ pc = "proposed_loop"
    /\ todo = {}
    /\ proposed_gens' = thermal_proposed_gens \o OtherProposed(Proposed(LocalGenerators))
    /\ pc' = "return"
    /\ UNCHANGED <<generators, heat_rate_file, year, existing_gens, thermal_gens,
                   null_heat_rates, unrealistic_heat_rates, thermal_gens_w_hr,
                   thermal_gens_wo_hr, n_outliers, min_hr, max_hr, result>>
    /\ UNCHANGED <<cvars, ovars, fvars, uvars, svars, hvars>>

OrderNext ==
    \/ Join
    \/ Classify
    \/ Clip
    \/ BeginExisting
    \/ AssignOne
    \/ EndExisting
    \/ Merge
    \/ BeginProposed
    \/ AssignOneProposed
    \/ EndProposed
    \/ Return

OrderSpec == Init /\ [][OrderNext]_vars

-----------------------------------------------------------------------------
(* scrape.py: scrape_eia860 and scrape_eia923 (lines 123-176), each run as one *)
(* step.  download_file is imported from utils (line 37); it is taken to write *)
(* the file at local_path and to return one row of metadata for it.            *)

\* the years of the range of line 46 that are followed
MaxYears == 2

\* most files fetched in a sequence of runs
MaxFetched == 6

\* the first year followed: the range of line 46 is 2004 .. 2015, and 2007 is
\* the last year of the older name of the EIA923 files
FirstYear == 2007

\* line 154: the EIA923 files are named f923_ from this year on
NewFormYear == 2008

REUSE_PRIOR_DOWNLOADS == TRUE

unzip_directory == "downloads"

\* range(start_year, end_year+1), cut to the years followed
YearRange == [i \in 1..MaxYears |-> FirstYear + i - 1]

\* line 127: 'eia860{}.zip'.format(year)
eia860_file_list == [i \in DOMAIN YearRange |-> [form |-> "eia860", year |-> YearRange[i]]]

\* lines 154-156
eia923_file_list ==
    [i \in DOMAIN YearRange |->
        [form |-> IF YearRange[i] >= NewFormYear THEN "f923_" ELSE "f906920_",
         year |-> YearRange[i]]]

\* os.path.join(unzip_directory, filename)
local_path(filename) == [dir |-> unzip_directory, file |-> filename]

Paths(file_list) == [i \in DOMAIN file_list |-> local_path(file_list[i])]

\* the row download_file returns for the file it wrote
download_file(path) == [row |-> "meta_data", local_path |-> path]

\* the row of line 144, the names of the fields
download_metadata_fields ==
    [row |-> "download_metadata_fields",
     local_path |-> [dir |-> "", file |-> [form |-> "", year |-> 0]]]

\* lines 128-131: the files of the list that are not skipped, in the order of the list
ToDownload(file_list) ==
    SelectSeq(Paths(file_list), LAMBDA p : ~(REUSE_PRIOR_DOWNLOADS /\ p \in downloads))

\* line 139 with the header written by every run
write_log_header_Always == TRUE

\* line 139
write_log_header == ~log_exists

\* what a scrape leaves alone
notScrape == <<avars, cvars, ovars, fvars, uvars, hvars>>

\* lines 123-147 and 150-176 for a file list
Scrape(file_list) ==
    LET new == ToDownload(file_list)
        log_dat == [i \in DOMAIN new |-> download_file(new[i])]
    IN  /\ Len(fetched) + Len(new) <= MaxFetched
        /\ downloads' = downloads \cup {new[i] : i \in DOMAIN new}
        /\ fetched' = fetched \o new
        /\ download_log' =
              download_log
                \o (IF write_log_header THEN <<download_metadata_fields>> ELSE <<>>)
                \o log_dat
        /\ log_exists' = TRUE
        /\ zip_file_list' = Paths(file_list)
        /\ UNCHANGED notScrape

scrape_eia860 == Scrape(eia860_file_list)

scrape_eia923 == Scrape(eia923_file_list)

\* between two runs the user deletes a downloaded file
RemoveDownload ==
    /\ Len(fetched) < MaxFetched
    /\ \E p \in downloads : downloads' = downloads \ {p}
    /\ UNCHANGED <<download_log, log_exists, fetched, zip_file_list>>
    /\ UNCHANGED notScrape

\* no run yet: the directory is empty and there is no log
ScrapeInit ==
    /\ ScrapeIdle
    /\ AssignIdle
    /\ FinishIdle
    /\ UploadIdle
    /\ HydroIdle

ScrapeNext ==
    \/ scrape_eia860
    \/ scrape_eia923
    \/ RemoveDownload

ScrapeSpec == ScrapeInit /\ [][ScrapeNext]_vars

-----------------------------------------------------------------------------
(* scrape.py: the loop of lines 245-247 of parse_eia923_dat, one pass at a      *)
(* time.  months is a dict, and the order in which a loop runs over the keys   *)
(* of a dict is the interpreter's choice: the calendar order is one of the      *)
(* orders followed.                                                             *)

\* lines 63-75
months(m) ==
    CASE m \in {"January", "March", "May", "July", "August", "October", "December"} -> 31
      [] m \in {"April", "June", "September", "November"} -> 30
      [] m = "February" -> 28

\* the netgen columns of the EIA923 sheet, columns[3] .. columns[14], in the
\* order of the sheet
Calendar ==
    << "January", "February", "March", "April", "May", "June", "July", "August",
       "September", "October", "November", "December" >>

NumMonths == Len(Calendar)

\* line 247: the hours of a day
HoursPerDay == 24

\* orders of the keys of months: the order of the text, its reverse, and the
\* order of the names
MonthOrders ==
    { Calendar,
      [i \in 1..NumMonths |-> Calendar[NumMonths + 1 - i]],
      << "April", "August", "December", "February", "January", "July", "June",
         "March", "May", "November", "October", "September" >> }

\* a row of hydro_outputs after line 244: the net generation of the twelve
\* months (MWh) and the capacity (MW)
HydroRow(plant, netgen, cap) ==
    [plant |-> plant, pm |-> "HY", monthly |-> [k \in 1..NumMonths |-> Reading(netgen[k])],
     cap |-> cap]

HydroRows ==
    << HydroRow(1, [k \in 1..NumMonths |-> 7440], 10),
       HydroRow(2, [k \in 1..NumMonths |-> 1000 * k], 50),
       HydroRow(3, [k \in 1..NumMonths |-> 0], 20) >>

\* the tables of at most MaxFileRows of the rows
HydroTables ==
    {[i \in DOMAIN p |-> HydroRows[p[i]]] : p \in Picks(DOMAIN HydroRows, MaxFileRows)}

\* line 244 is done and the loop of line 245 starts
HydroInit ==
    /\ month_order \in MonthOrders
    /\ hydro_outputs \in HydroTables
    /\ month_i = 0
    /\ AssignIdle
    /\ FinishIdle
    /\ UploadIdle
    /\ ScrapeIdle

\* lines 246-247 for the pass i, m of enumerate(months): the column 3+i is named
\* i+1 and divided by months[m] * 24 * capacity
HydroPass ==
    /\ month_i < NumMonths
    /\ LET i == month_i
           m == month_order[i + 1]
       IN  hydro_outputs' =
              [r \in DOMAIN hydro_outputs |->
                  [hydro_outputs[r] EXCEPT !.monthly[i + 1] =
                      Ratio(@[1], @[2] * months(m) * HoursPerDay * hydro_outputs[r].cap)]]
    /\ month_i' = month_i + 1
    /\ UNCHANGED month_order
    /\ UNCHANGED <<avars, cvars, ovars, fvars, uvars, svars>>

HydroNext == HydroPass

HydroSpec == HydroInit /\ [][HydroNext]_vars

-----------------------------------------------------------------------------
(* Properties *)

Rows(df) == {df[i] : i \in DOMAIN df}

\* the call has returned its table
Returned == pc = "done"

\* thermal_gens still holds the joined readings (it is rebuilt at line 371)
Joined == pc \in {"clip", "impute", "merge", "raised"}

\* the rows of the joined table that went to thermal_gens_w_hr
ValidJoined ==
    LET labels == Labels(thermal_gens_w_hr)
    IN  {r \in Rows(thermal_gens) : r.idx \in labels}

\* an observation of the year with the unit's plant code, prime mover and fuel
HasObservation(r) ==
    \E i \in DOMAIN heat_rate_file :
        /\ heat_rate_file[i].year = year
        /\ heat_rate_file[i].plant = r.plant
        /\ heat_rate_file[i].pm = r.pm
        /\ fuels(heat_rate_file[i].es) = r.es

\* C1: in the returned table every unit whose prime mover is not CC, GT, IC or ST
\* has a null Best Heat Rate, Operable or Proposed, with or without a matching
\* observation of the year.
C1_NonThermalNull ==
    Returned =>
        \A r \in Rows(result) : r.pm \notin {"CC", "GT", "IC", "ST"} => r.hr = NaN

\* an Operable hydro unit with a matching observation of the year is in the
\* returned table
C1_Witness ==
    /\ Returned
    /\ \E r \in Rows(result) : r.pm = "HY" /\ r.status = "Operable" /\ HasObservation(r)


\* the even windows 2, 4, .., 90
Windows == {w \in InitialWindow..MaxWindow : w % WindowStep = 0}

\* the valid rows with the prime mover and fuel and a vintage within w years of v
Matching(prime_mover, energy_source, v, w) ==
    {i \in DOMAIN thermal_gens_w_hr :
        /\ thermal_gens_w_hr[i].pm = prime_mover
        /\ thermal_gens_w_hr[i].es = energy_source
        /\ thermal_gens_w_hr[i].oy >= v - w
        /\ thermal_gens_w_hr[i].oy <= v + w}

\* the smallest window with at least 4 matches, or 90
SmallestWindow(prime_mover, energy_source, v) ==
    LET enough == {w \in Windows :
                      Cardinality(Matching(prime_mover, energy_source, v, w)) >= 4}
    IN  IF enough = {} THEN 90
        ELSE CHOOSE w \in enough : \A x \in enough : w <= x

RECURSIVE SumOver(_, _, _)
\* the sum of the post-clipping heat rates of the valid rows of S among lo .. hi
SumOver(S, lo, hi) ==
    IF lo > hi THEN 0
    ELSE IF lo = hi
         THEN (IF lo \in S THEN thermal_gens_w_hr[lo].hr[1] ELSE 0)
         ELSE LET mid == (lo + hi) \div 2
              IN  SumOver(S, lo, mid) + SumOver(S, mid + 1, hi)

\* h is the mean of the post-clipping heat rates of the valid rows S (null when
\* there is none)
IsMeanOver(h, S) ==
    IF S = {} THEN h = NaN
    ELSE /\ h # NaN
         /\ h[1] * Cardinality(S) = SumOver(S, 1, Len(thermal_gens_w_hr)) * h[2]

\* h is the value the claim C2 gives a unit of prime mover pm, fuel es and vintage v
IsImputed(h, prime_mover, energy_source, v) ==
    LET atW == Matching(prime_mover, energy_source, v,
                        SmallestWindow(prime_mover, energy_source, v))
    IN  IF atW # {} THEN IsMeanOver(h, atW)
        ELSE IsMeanOver(h, {i \in DOMAIN thermal_gens_w_hr :
                               thermal_gens_w_hr[i].pm = prime_mover})

\* the rows of thermal_gens_wo_hr have their averages (lines 363-369 are done)
Assigned == pc \in {"merge", "proposed", "return", "done"}

Floor(energy_source) == IF energy_source = "Coal" THEN 8607 ELSE 6711

IsMissing(r) == r.hr = NaN

IsUnrealistic(r) == r.hr # NaN /\ r.hr[1] < Floor(r.es) * r.hr[2]

IsValid(r) == r.hr # NaN /\ r.hr[1] >= Floor(r.es) * r.hr[2]

\* C3: every joined Operable thermal unit is in exactly one of three sets: missing
\* iff its reading is null, unrealistic iff the reading is non-null and strictly
\* below the floor of its fuel, valid otherwise (a reading equal to the floor is
\* valid); valid rows make thermal_gens_w_hr, the others thermal_gens_wo_hr.
C3_Partition ==
    Joined =>
        /\ \A r \in Rows(thermal_gens) :
              /\ r.idx \in null_heat_rates <=> IsMissing(r)
              /\ r.idx \in unrealistic_heat_rates <=> IsUnrealistic(r)
              /\ r.idx \in Labels(thermal_gens_w_hr) <=> IsValid(r)
              /\ r.idx \in Labels(thermal_gens_wo_hr) <=> (IsMissing(r) \/ IsUnrealistic(r))
        /\ null_heat_rates \cap unrealistic_heat_rates = {}
        /\ Labels(thermal_gens_w_hr) \cap Labels(thermal_gens_wo_hr) = {}
        /\ Labels(thermal_gens_w_hr) \cup Labels(thermal_gens_wo_hr) = Labels(thermal_gens)
        /\ Len(thermal_gens_w_hr) + Len(thermal_gens_wo_hr) = Len(thermal_gens)

\* a Coal unit with a reading of exactly 8.607 is valid, beside a unit of the same
\* table that is not
C3_Witness ==
    /\ Joined
    /\ \E r \in Rows(thermal_gens) :
          /\ r.es = "Coal" /\ r.hr = <<8607, 1>>
          /\ r.idx \in Labels(thermal_gens_w_hr)
    /\ thermal_gens_wo_hr # <<>>

\* the number of outliers per tail the claims give: floor(0.008 * count(valid))
ClaimedN == (8 * Cardinality(ValidJoined)) \div 1000

\* thermal_gens_w_hr is clipped and thermal_gens still holds the joined readings
Clipped == pc \in {"impute", "merge"}

\* C4: after the clipping every valid unit's heat rate lies in [min_hr, max_hr],
\* min_hr <= max_hr, and min_hr and max_hr are the values at rank n and rank
\* count-1-n of the valid joined readings in ascending order.
C4_WithinBounds ==
    Clipped =>
        LET n == ClaimedN
            valid == ValidJoined
        IN  /\ Leq(min_hr, max_hr)
            /\ \A r \in Rows(thermal_gens_w_hr) : Leq(min_hr, r.hr) /\ Leq(r.hr, max_hr)
            /\ Cardinality({v \in valid : ~Leq(min_hr, v.hr)}) <= n
            /\ Cardinality({v \in valid : Leq(v.hr, min_hr)}) >= n + 1
            /\ Cardinality({v \in valid : ~Leq(v.hr, max_hr)}) <= n
            /\ Cardinality({v \in valid : Leq(max_hr, v.hr)}) >= n + 1

\* a valid reading below min_hr and one above max_hr were clipped
C4_Witness ==
    /\ Clipped
    /\ \E v \in ValidJoined : ~Leq(min_hr, v.hr)
    /\ \E v \in ValidJoined : ~Leq(v.hr, max_hr)

\* the joined reading of the row that is at position p of thermal_gens_w_hr
JoinedAt(p) == Loc(thermal_gens, thermal_gens_w_hr[p].idx).hr

C6_EmptyValidSetDoesNotRaise ==
    (/\ pc \notin {"start", "classify"}
     /\ Len(thermal_gens_w_hr) = 0
     /\ Len(thermal_gens_wo_hr) > 0) => pc # "raised"

\* C7: in a returned table a thermal unit, Operable or Proposed, has a null Best
\* Heat Rate exactly when no valid unit has its prime mover; the unit is in the
\* table all the same.
C7_NullIffNoValidOfPrimeMover ==
    Returned =>
        \A r \in Rows(result) :
            r.pm \in {"CC", "GT", "IC", "ST"} =>
                (r.hr = NaN <=> ~\E v \in Rows(thermal_gens_w_hr) : v.pm = r.pm)

\* a thermal unit with a null Best Heat Rate is in the returned table, beside valid
\* units of another prime mover
C7_Witness ==
    /\ Returned
    /\ \E r \in Rows(result) : r.pm \in {"CC", "GT", "IC", "ST"} /\ r.hr = NaN
    /\ thermal_gens_w_hr # <<>>

\* the columns of an input row as the returned table shows them (fuel renamed)
Shown(g) == Columns([g EXCEPT !.es = fuels(@)])

\* C8: every input row that is Operable or Proposed is in the returned table,
\* thermal or not, with or without a heat rate: the table has at least as many
\* rows of its columns as the input has.
C8_NoRowDropped ==
    Returned =>
        \A g \in Rows(generators) :
            g.status \in {"Operable", "Proposed"} =>
                Cardinality({i \in DOMAIN result : Columns(result[i]) = Shown(g)})
                    >= Cardinality({i \in DOMAIN generators : Shown(generators[i]) = Shown(g)})

\* an Operable thermal unit for which nothing could be imputed, and a unit that is
\* not thermal, are both in the returned table
C8_Witness ==
    /\ Returned
    /\ \E g \in Rows(generators) :
          /\ g.status = "Operable" /\ g.pm \in {"CC", "GT", "IC", "ST"}
          /\ \E r \in Rows(result) : Columns(r) = Shown(g) /\ r.hr = NaN
    /\ \E g \in Rows(generators) : g.pm \notin {"CC", "GT", "IC", "ST"}

\* C9: an Operable unit matched by several observations of the year gives one row
\* of the returned table, so that the table has as many Operable rows as the input.
C9_OneRowPerOperableUnit ==
    Returned =>
        /\ \A g \in Rows(generators) :
              g.status = "Operable" =>
                  Cardinality({i \in DOMAIN result : Columns(result[i]) = Shown(g)})
                      = Cardinality({i \in DOMAIN generators : Shown(generators[i]) = Shown(g)})
        /\ Cardinality({i \in DOMAIN result : result[i].status = "Operable"})
              = Cardinality({i \in DOMAIN generators : generators[i].status = "Operable"})

\* the column names of the caller's table (idx is the index, no column)
InputColumns == {"idx", "plant", "pm", "es", "oy", "status"}

\* C11: the call leaves the caller's table as it was: no step changes a row or a
\* value of it (the Energy Source codes stay the original ones), it never has a
\* Best Heat Rate column, and the returned table is another table, which has one.
C11_CallerTableUnchanged ==
    [][/\ generators' = generators
       /\ \A i \in DOMAIN generators' : DOMAIN generators'[i] = InputColumns
       /\ pc' = "done" =>
             \A i \in DOMAIN result' : DOMAIN result'[i] = InputColumns \cup {"hr"}]_vars

\* a table is returned with the fuel of an Operable and of a Proposed unit
\* renamed, while the caller's table still has the codes
C11_Witness ==
    /\ Returned
    /\ \E g \in Rows(generators) :
          /\ g.status = "Operable" /\ fuels(g.es) # g.es
          /\ \E r \in Rows(result) : Columns(r) = Shown(g)
    /\ \E g \in Rows(generators) :
          /\ g.status = "Proposed" /\ fuels(g.es) # g.es
          /\ \E r \in Rows(result) : Columns(r) = Shown(g) /\ r.idx = g.idx

\* C12: the returned table is the caller's table with a Best Heat Rate column
\* added: every returned row has, in every column of the input, the values of an
\* input row, and every input row is found so in the returned table.
C12_OriginalTablePlusColumn ==
    Returned =>
        /\ \A r \in Rows(result) : \E g \in Rows(generators) : Columns(r) = Columns(g)
        /\ \A g \in Rows(generators) : \E r \in Rows(result) : Columns(r) = Columns(g)

\* the rows of the returned table that came from proposed_gens
ProposedRows == {r \in Rows(result) : r.status = "Proposed"}

\* C13: in a returned table every thermal Proposed unit has the value of the window
\* search over the clipped valid Operable units with the year of the call as
\* vintage, so that two of them with the same prime mover and fuel have the same
\* value whatever their operating years.
C13_ProposedUseFilingYear ==
    Returned =>
        /\ \A g \in Rows(Proposed(generators)) :
              g.pm \in {"CC", "GT", "IC", "ST"} =>
                  \E r \in ProposedRows : r.idx = g.idx /\ Columns(r) = Shown(g)
        /\ \A r \in ProposedRows :
              r.pm \in {"CC", "GT", "IC", "ST"} => IsImputed(r.hr, r.pm, r.es, year)
        /\ \A r, s \in ProposedRows :
              (r.pm \in {"CC", "GT", "IC", "ST"} /\ r.pm = s.pm /\ r.es = s.es)
                  => r.hr = s.hr

\* two thermal Proposed units of one prime mover and fuel and different operating
\* years are returned with a value that the search from the operating year of one
\* of them would not give
C13_Witness ==
    /\ Returned
    /\ \E r, s \in ProposedRows :
          /\ r.pm = "ST" /\ s.pm = "ST" /\ r.es = s.es /\ r.oy # s.oy
          /\ r.hr # NaN /\ s.hr = r.hr
          /\ ~IsImputed(r.hr, r.pm, r.es, r.oy)

\* the caller's table without its Proposed rows
WithoutProposed == RangeIndex(SelectSeq(generators, LAMBDA g : g.status # "Proposed"))

\* what lines 277-372 make of the Operable rows of a caller's table gens whose
\* valid set is not empty
ExistingOutcome(gens) ==
    LET existing == Operable(ReplaceFuels(gens))
        joined == ThermalOnly(MergeHeatRates(existing, heat_rate_data))
        nulls == NullMask(joined)
        unreal == UnrealisticMask(joined)
        w_hr == SelectSeq(joined, LAMBDA r : r.idx \notin nulls /\ r.idx \notin unreal)
        wo_hr == SelectSeq(joined, LAMBDA r : r.idx \in nulls \/ r.idx \in unreal)
        n == NOutliers(w_hr)
        sorted == sort_values(w_hr)
        clipped == ClipLoop(sorted, n, MinHR(sorted, n), MaxHR(sorted, n))
    IN  MergeExisting(existing, clipped \o AssignAverages(wo_hr, clipped))

\* C14: a Proposed unit is in none of the tables of Steps 1-3 (the joined table,
\* the valid and the invalid set, the Operable table that is merged back), so it
\* takes no observation and n, min_hr and max_hr are those of the Operable units
\* alone; and the Operable rows of the returned table are the ones the call
\* returns for the caller's table without its Proposed rows.
C14_ProposedSkipSteps ==
    /\ \A r \in Rows(existing_gens) \cup Rows(thermal_gens) \cup Rows(thermal_gens_w_hr)
                \cup Rows(thermal_gens_wo_hr) : r.status = "Operable"
    /\ Clipped =>
          n_outliers = (8 * Cardinality({r \in Rows(thermal_gens) :
                                            r.status = "Operable" /\ IsValid(r)})) \div 1000
    /\ Returned =>
          SelectSeq(result, LAMBDA r : r.status = "Operable") = ExistingOutcome(WithoutProposed)

\* a thermal Proposed unit is returned beside an Operable thermal unit, and an
\* observation of the year with a reading that is not the unit's value has its
\* plant code, prime mover and fuel
C14_Witness ==
    /\ Returned
    /\ \E r \in ProposedRows :
          /\ r.pm = "ST"
          /\ \E i \in DOMAIN heat_rate_data :
                /\ heat_rate_data[i].plant = r.plant
                /\ heat_rate_data[i].pm = r.pm
                /\ heat_rate_data[i].es = r.es
                /\ IsValid(heat_rate_data[i])
                /\ heat_rate_data[i].hr # r.hr
    /\ \E r \in Rows(result) : r.status = "Operable" /\ r.pm = "ST" /\ r.hr # NaN

\* observation i of the file has the plant code, the prime mover and, after the
\* renaming of both, the fuel of the joined row r
SameKey(i, r) ==
    /\ heat_rate_file[i].plant = r.plant
    /\ heat_rate_file[i].pm = r.pm
    /\ fuels(heat_rate_file[i].es) = r.es

\* C15: a non-null joined reading of an Operable thermal unit is the reading of an
\* observation of the year of the call with the unit's plant code, prime mover and
\* (renamed) fuel; a unit without such an observation has a null joined reading
\* and is classified missing.
C15_JoinOnKeyAndYear ==
    Joined =>
        \A r \in Rows(thermal_gens) :
            /\ r.hr # NaN =>
                  \E i \in DOMAIN heat_rate_file :
                      /\ SameKey(i, r)
                      /\ heat_rate_file[i].year = year
                      /\ heat_rate_file[i].hr = r.hr
            /\ (~\E i \in DOMAIN heat_rate_file :
                      SameKey(i, r) /\ heat_rate_file[i].year = year) =>
                  /\ r.hr = NaN
                  /\ r.idx \in null_heat_rates
                  /\ r.idx \notin unrealistic_heat_rates
                  /\ r.idx \in Labels(thermal_gens_wo_hr)

\* a unit whose only observation is of another year is joined to a null reading,
\* beside a unit that took the reading of its observation of the year
C15_Witness ==
    /\ Joined
    /\ \E r \in Rows(thermal_gens) :
          /\ r.hr = NaN
          /\ r.idx \in null_heat_rates
          /\ \E i \in DOMAIN heat_rate_file :
                /\ SameKey(i, r)
                /\ heat_rate_file[i].year # year
                /\ heat_rate_file[i].hr # NaN
    /\ \E r \in Rows(thermal_gens) : r.hr # NaN

\* the valid rows with the prime mover and the fuel
SameTechnologyAndFuel(prime_mover, energy_source) ==
    {i \in DOMAIN thermal_gens_w_hr :
        /\ thermal_gens_w_hr[i].pm = prime_mover
        /\ thermal_gens_w_hr[i].es = energy_source}

\* C16: a unit gets the technology-only average only if no valid unit has its
\* prime mover and fuel: whenever one has, the value assigned is a mean over
\* valid units of that prime mover and fuel (those of one of the windows of the
\* search, or all of them).
C16_TechnologyMeanOnlyWithoutSameFuel ==
    Assigned =>
        \A w \in Rows(thermal_gens_wo_hr) :
            LET same == SameTechnologyAndFuel(w.pm, w.es)
            IN  same # {} =>
                    \E S \in {Matching(w.pm, w.es, w.oy, d) : d \in Windows} \cup {same} :
                        S # {} /\ IsMeanOver(w.hr, S)

\* C17: a call of calculate_avg_heat_rate returns, for every valid table and every
\* vintage, a null one and one that matches nothing included: the window starts
\* at 2, a pass of the loop adds 2 to it and nothing else changes it, it is never
\* above 90 (44 passes at most), and the loop is left at the latest at 90; the
\* value returned is the one of the operators calculate_avg_heat_rate and
\* WhileLoop used for the rows of the tables.
C17_WindowSearchTerminates ==
    /\ [](window \in Windows /\ (window - InitialWindow) \div WindowStep <= 44)
    /\ [][\/ window' = window
          \/ (window' = window + 2 /\ window < 90 /\ cpc = "while")]_vars
    /\ [](cpc = "while" => window < 90)
    /\ [](cpc = "returned" =>
            /\ window = WhileLoop(thermal_gens_w_hr, call.prime_mover,
                                  call.energy_source, call.vintage, InitialWindow)
            /\ avg = calculate_avg_heat_rate(thermal_gens_w_hr, call.prime_mover,
                                             call.energy_source, call.vintage))
    /\ <>(cpc = "returned")

\* a call with a null vintage on a table with units of its prime mover and fuel
\* has returned after the window grew to 90 without a match
C17_Witness ==
    /\ cpc = "returned"
    /\ call.vintage = NullYear
    /\ SameTechnologyAndFuel(call.prime_mover, call.energy_source) # {}
    /\ window = 90
    /\ similar_generators = <<>>
    /\ avg # NaN

\* the valid joined units are five Coal/ST units of the vintages 1990 .. 1994 with
\* the readings 9.0, 9.5, 10.0, 10.5 and 11.0
FiveCoalUnits ==
    /\ Cardinality(ValidJoined) = 5
    /\ {<<v.pm, v.es, v.oy, v.hr>> : v \in ValidJoined} =
          {<<"ST", "Coal", 1989 + i, <<8500 + 500 * i, 1>>>> : i \in 1..5}

\* C18: with five valid Coal/ST units of the vintages 1990 .. 1994 and the readings
\* 9.0, 9.5, 10.0, 10.5, 11.0, nothing is clipped (n = 0), the five keep their
\* readings, and a Coal/ST unit of 1992 without a reading finds all five in the
\* window of 2 years and gets their mean, 10.0.
C18_FiveUnitExample ==
    (Clipped /\ FiveCoalUnits) =>
        /\ n_outliers = 0
        /\ \A v \in Rows(thermal_gens_w_hr) : v.hr = Loc(thermal_gens, v.idx).hr
        /\ \A w \in Rows(thermal_gens_wo_hr) :
              (w.pm = "ST" /\ w.es = "Coal" /\ w.oy = 1992) =>
                  /\ Cardinality(Matching("ST", "Coal", 1992, 2)) = 5
                  /\ pc = "merge" => w.hr = <<10000, 1>>

\* the example's sixth unit, joined to no reading, has its value
C18_Witness ==
    /\ pc = "merge"
    /\ FiveCoalUnits
    /\ \E w \in Rows(thermal_gens_wo_hr) :
          /\ w.pm = "ST" /\ w.es = "Coal" /\ w.oy = 1992
          /\ Loc(thermal_gens, w.idx).hr = NaN
          /\ w.hr # NaN

\* every reading of the year observed for the returned row r is below the floor
\* of r's fuel, and there is one
OnlyRejectedReadings(r) ==
    LET seen == {i \in DOMAIN heat_rate_file :
                    /\ SameKey(i, r)
                    /\ heat_rate_file[i].year = year
                    /\ heat_rate_file[i].hr # NaN}
    IN  /\ seen # {}
        /\ \A i \in seen : heat_rate_file[i].hr[1] < Floor(r.es)

\* C19: an Operable thermal unit whose joined reading is below the floor of its
\* fuel is no row of the valid set, so its reading is in no mean and is neither
\* clip bound; its value is that of the window search over the valid set, as for
\* a unit without a reading, which is null or at least 6.711, so a unit of a fuel
\* other than Coal never has the rejected reading; the returned table shows that
\* value.
C19_UnrealisticReimputed ==
    /\ pc = "merge" =>
          \A r \in Rows(thermal_gens) :
              IsUnrealistic(r) =>
                  /\ r.idx \notin Labels(thermal_gens_w_hr)
                  /\ r.idx \in Labels(thermal_gens_wo_hr)
                  /\ \E v \in ValidJoined : v.hr = min_hr
                  /\ \E v \in ValidJoined : v.hr = max_hr
                  /\ LET w == Loc(thermal_gens_wo_hr, r.idx)
                     IN  /\ IsImputed(w.hr, r.pm, r.es, r.oy)
                         /\ w.hr = NaN \/ Leq(<<6711, 1>>, w.hr)
                         /\ r.es # "Coal" => w.hr # r.hr
    /\ Returned =>
          \A r \in Rows(result) :
              (r.status = "Operable" /\ r.pm \in {"CC", "GT", "IC", "ST"}
                   /\ OnlyRejectedReadings(r)) =>
                  /\ IsImputed(r.hr, r.pm, r.es, r.oy)
                  /\ r.hr = NaN \/ Leq(<<6711, 1>>, r.hr)

\* a Gas/GT unit with a joined reading of 5.0 has another value, beside valid
\* units
C19_Witness ==
    /\ pc = "merge"
    /\ \E r \in Rows(thermal_gens) :
          /\ r.pm = "GT" /\ r.es = "Gas" /\ r.hr = <<5000, 1>>
          /\ Loc(thermal_gens_wo_hr, r.idx).hr \notin {NaN, r.hr}
    /\ Len(thermal_gens_w_hr) > 1

\* the positions of the sorted valid table whose heat rate the clipping changed
Overwritten == {p \in DOMAIN thermal_gens_w_hr : thermal_gens_w_hr[p].hr # JoinedAt(p)}

-----------------------------------------------------------------------------
(* upload_generation_projects: the heat rate of a group, the flags, the files, *)
(* the dropped projects and the prompt                                         *)

\* the flags are set
Flagged == upc \in {"prompt", "asked", "exit", "push", "done"}

\* the summed capacity of the group of a row
TotalWeight(df, r) == LET group == Group(df, index_cols(r)) IN SumCap(group, Len(group))

\* C21: when the capacities of a group sum to zero, the group's heat rate is the
\* unweighted mean of the heat rates of its rows
C21_ZeroWeightGivesUnweightedMean ==
    [][upc = "average" /\ upc' = "limits" =>
        \A i \in DOMAIN up_generators :
            TotalWeight(up_generators, up_generators[i]) = 0 =>
                up_generators'[i].full_load_heat_rate =
                    MeanOfGroup(Group(up_generators, index_cols(up_generators[i])))]_vars

\* the fuel names of the EIA energy sources NUC, COAL, PC and GEO
BaseloadFuels == {fuels(code) : code \in {"NUC", "COAL", "PC", "GEO"}}

\* C22: once the flags are set, is_baseload is True for exactly the plants whose
\* EIA energy source was NUC, COAL, PC or GEO
C22_BaseloadFlag ==
    Flagged =>
        \A i \in DOMAIN up_generators :
            up_generators[i].is_baseload = (up_generators[i].es \in BaseloadFuels)

\* C23: whichever of the three files cannot be read, the run gets past the
\* reading step without raising
C23_UnreadableFileDoesNotRaise ==
    (\E f \in {"existing", "new", "uprates"} : ~output_files[f].ok) => upc # "raised"

\* C24: after the drop step the table holds the rows of the two files whose
\* Energy Source is neither Purchased_Steam nor Electricity, and no others
C24_DropsExactlyIgnoredSources ==
    upc = "replace" =>
        up_generators = SelectSeq(ConcatFiles(up_existing_gens, up_new_gens),
                                  LAMBDA r : r.es \notin ignore_energy_sources)

\* C28: a statement goes to the database only after the answer y; the answer n
\* ends the run with nothing sent; any other answer brings the prompt again
C28_NothingSentBeforeYes ==
    [][/\ (db_statements' # db_statements => carry_on = "y" /\ carry_on' = "y")
       /\ (upc = "asked" /\ carry_on = "n" => upc' = "exit" /\ db_statements' = <<>>)
       /\ (upc = "asked" /\ carry_on \notin {"y", "n"} =>
              upc' = "asked" /\ carry_on' \in Answers /\ db_statements' = <<>>)
       /\ upc # "exit"]_vars

C28_Witness ==
    /\ upc = "done"
    /\ carry_on = "y"
    /\ Len(db_statements) >= Len(Statements) - 1
    /\ \E i \in DOMAIN db_statements : db_statements[i].verb = "DELETE"

-----------------------------------------------------------------------------
(* finish_project_processing: the two files of the Proposed units *)

Finished == pc = "finished"

\* the number of rows of a table equal to r
Copies(df, r) == Cardinality({i \in DOMAIN df : df[i] = r})

\* an Operable row of the returned table shares plant, prime mover and energy
\* source with r
HasOperablePartner(r) ==
    \E x \in Rows(Operable(result)) : x.plant = r.plant /\ x.pm = r.pm /\ x.es = r.es

\* C27: every Proposed unit is written to exactly one of the two files: to the
\* new-projects file when no Operable unit shares its plant, prime mover and
\* energy source, to the uprates file when at least one does
C27_ProposedInExactlyOneFile ==
    Finished =>
        \A r \in Rows(Proposed(result)) :
            /\ Copies(new_gens, r) + Copies(uprates, r) = Copies(Proposed(result), r)
            /\ HasOperablePartner(r) => Copies(new_gens, r) = 0
            /\ ~HasOperablePartner(r) => Copies(uprates, r) = 0

-----------------------------------------------------------------------------
(* The floors in the returned table *)

\* the rows of the returned table with a prime mover of line 295 and a heat rate
ThermalWithHeatRate ==
    {r \in Rows(result) : r.pm \in ThermalPrimeMovers /\ r.hr # NaN}

\* h >= floor for a non-null value h and a floor in thousandths
AtLeast(h, floor) == h[1] >= floor * h[2]

\* the vintage the averages of a row are taken at (lines 366 and 389)
VintageOf(r) == IF r.status = "Proposed" THEN year ELSE r.oy

\* no valid unit of the row's prime mover and fuel lies within 90 years of its
\* vintage, so an average for it is the one of line 358
TechnologyOnly(r) == Matching(r.pm, r.es, VintageOf(r), MaxWindow) = {}

\* C26 as claimed: in the returned table every thermal unit with a heat rate is at
\* or above the floor of its own fuel, 8.607 for Coal and 6.711 for any other,
\* imputed values included.
C26_FloorOfOwnFuel ==
    Returned => \A r \in ThermalWithHeatRate : AtLeast(r.hr, Floor(r.es))

\* C26 as amended: in the returned table every thermal unit with a heat rate is at
\* or above 6.711, imputed values included, and a Coal unit is at or above 8.607
\* unless no valid Coal unit of its prime mover lies within 90 years of its
\* vintage (its value is then the technology's average) or the clipping bound
\* max_hr is below 8.607.
C26_FloorOfOwnFuelButTechnologyMean ==
    Returned =>
        \A r \in ThermalWithHeatRate :
            /\ AtLeast(r.hr, OtherFloor)
            /\ (r.es = "Coal" /\ ~TechnologyOnly(r) /\ AtLeast(max_hr, CoalFloor))
                  => AtLeast(r.hr, CoalFloor)

C26_Witness ==
    /\ Returned
    /\ \E r \in ThermalWithHeatRate :
          /\ r.es = "Coal"
          /\ ~HasObservation(r)
          /\ ~TechnologyOnly(r)
          /\ AtLeast(max_hr, CoalFloor)
    /\ \E r \in ThermalWithHeatRate : r.es # "Coal" /\ ~HasObservation(r)

-----------------------------------------------------------------------------
(* The order of the rows in the loops of lines 363-369 and 386-391 *)

\* the rows of the joined table flagged null or unrealistic, as line 309 takes them
WithoutHeatRate ==
    SelectSeq(thermal_gens, LAMBDA r : r.idx \in null_heat_rates \cup unrealistic_heat_rates)

\* C25: whatever the order of the rows, a row that had its pass has the average
\* over the valid, clipped set for its own prime mover, fuel and vintage (the
\* year for a Proposed unit), a row that had not is as it was, and when a loop is
\* through its table is the one the loop in index order gives.
C25_OrderIndependent ==
    /\ pc = "impute_loop" =>
          \A r \in Rows(thermal_gens_wo_hr) :
              r.hr = IF r.idx \in todo
                     THEN Loc(thermal_gens, r.idx).hr
                     ELSE calculate_avg_heat_rate(thermal_gens_w_hr, r.pm, r.es, r.oy)
    /\ pc = "merge" =>
          thermal_gens_wo_hr = AssignAverages(WithoutHeatRate, thermal_gens_w_hr)
    /\ pc = "proposed_loop" =>
          \A r \in Rows(thermal_proposed_gens) :
              r.hr = IF r.idx \in todo
                     THEN NaN
                     ELSE calculate_avg_heat_rate(thermal_gens_w_hr, r.pm, r.es, year)
    /\ pc = "return" =>
          proposed_gens = ThermalProposed(Proposed(LocalGenerators), thermal_gens_w_hr, year)
                          \o OtherProposed(Proposed(LocalGenerators))

\* a later row had its pass before an earlier one, both have valid units of their
\* like, and their averages differ
C25_Witness ==
    /\ pc = "impute_loop"
    /\ \E i, j \in DOMAIN thermal_gens_wo_hr :
          /\ i < j
          /\ thermal_gens_wo_hr[i].idx \in todo
          /\ thermal_gens_wo_hr[j].idx \notin todo
          /\ thermal_gens_wo_hr[j].hr # NaN
          /\ LET r == thermal_gens_wo_hr[i]
                 h == calculate_avg_heat_rate(thermal_gens_w_hr, r.pm, r.es, r.oy)
             IN  h # NaN /\ h # thermal_gens_wo_hr[j].hr

-----------------------------------------------------------------------------
(* The download log *)

\* the log is the header and then one row for each file fetched, in the order of
\* the downloads; without a log nothing was fetched
LogShape ==
    /\ ~log_exists => download_log = <<>> /\ fetched = <<>>
    /\ log_exists =>
          /\ download_log # <<>>
          /\ download_log[1] = download_metadata_fields
          /\ \A i \in 2..Len(download_log) : download_log[i] # download_metadata_fields
          /\ Len(download_log) = Len(fetched) + 1
          /\ \A i \in DOMAIN fetched : download_log[i + 1] = download_file(fetched[i])

\* the elements a step appended to a sequence
Appended(before, after) ==
    {after[i] : i \in (Len(before) + 1)..Len(after)}

-----------------------------------------------------------------------------
(* The monthly hydro capacity factors *)

\* C30: the pass that writes column k divides the net generation of calendar
\* month k by the days of calendar month k * 24 * the capacity, whatever the
\* order of the months table.
C30_OwnMonthsDays ==
    [][month_i' = month_i + 1 =>
          LET k == month_i'
          IN  \A r \in DOMAIN hydro_outputs :
                 hydro_outputs'[r].monthly[k] =
                    Ratio(hydro_outputs[r].monthly[k][1],
                          months(Calendar[k]) * HoursPerDay * hydro_outputs[r].cap)]_vars

====
